---- MODULE Spec2Model ----
(***************************************************************************)
(* The intention broadcast core of healing_api.py: the process-wide        *)
(* sequence counter, the packet envelope, the subscriber registry, the     *)
(* fan-out of broadcast_message and the per-connection handler             *)
(* handle_websocket.                                                       *)
(*                                                                         *)
(* Scheduling.  Every handler is a coroutine on one asyncio event loop:    *)
(* code between two suspension points runs without interleaving.  The      *)
(* suspension points of the handler are the wait for the next inbound      *)
(* message (async for), the return of websocket.send (the frame is handed  *)
(* to the transport when send is called; the caller may then wait for the  *)
(* transport to drain) and asyncio.sleep.  Each action below is the code   *)
(* from one suspension point to the next.                                  *)
(***************************************************************************)
EXTENDS Integers, Sequences, FiniteSets, TLC

\* ---------------------------------------------------------------- bounds
NConn == 2
MaxInbound == 2

Conns == 1..NConn
NoConn == 0

\* ------------------------------------------------------------- constants
\* SCHUMANN_RESONANCE = 7.83, counted in hundredths of a hertz
SCHUMANN_RESONANCE == 783

\* ------------------------------------------------------------------ values
\* A text is the sequence of its code points.  A float is v / 10^e with e >= 1
\* and no trailing zero below the first decimal, as repr prints it (7.83 is
\* v = 783, e = 2; 5.0 is v = 50, e = 1).
None == [k |-> "None"]
PyStr(s) == [k |-> "str", s |-> s]
PyInt(n) == [k |-> "int", v |-> n]
PyFloat(v, e) == [k |-> "num", v |-> v, e |-> e]
PyBool(b) == [k |-> "bool", b |-> b]
PyDict(items) == [k |-> "dict", items |-> items]
PyList(elems) == [k |-> "list", elems |-> elems]

\* a frequency in hundredths of a hertz, and a request's frequency that is a
\* JSON string and no number
Num(v) == PyFloat(v, 2)
NotANumber == PyStr(<<97, 98, 99>>)

Love == <<76, 111, 118, 101>>
NoText == <<>>

\* a call that returns a value or raises the exception named e
Returned(v) == [raised |-> FALSE, value |-> v, exc |-> ""]
Raise(e) == [raised |-> TRUE, value |-> None, exc |-> e]

\* ------------------------------------------------------------------- texts
\* the string literals of the packet code, as code points
T_header == <<104, 101, 97, 100, 101, 114>>  \* "header"
T_payload == <<112, 97, 121, 108, 111, 97, 100>>  \* "payload"
T_metadata == <<109, 101, 116, 97, 100, 97, 116, 97>>  \* "metadata"
T_version == <<118, 101, 114, 115, 105, 111, 110>>  \* "version"
T_type == <<116, 121, 112, 101>>  \* "type"
T_length == <<108, 101, 110, 103, 116, 104>>  \* "length"
T_sequenceId == <<115, 101, 113, 117, 101, 110, 99, 101, 73, 100>>  \* "sequenceId"
T_timestamp == <<116, 105, 109, 101, 115, 116, 97, 109, 112>>  \* "timestamp"
T_checksum == <<99, 104, 101, 99, 107, 115, 117, 109>>  \* "checksum"
T_intention == <<105, 110, 116, 101, 110, 116, 105, 111, 110>>  \* "intention"
T_frequency == <<102, 114, 101, 113, 117, 101, 110, 99, 121>>  \* "frequency"
T_field_type == <<102, 105, 101, 108, 100, 95, 116, 121, 112, 101>>  \* "field_type"
T_energy_signature == <<101, 110, 101, 114, 103, 121, 95, 115, 105, 103, 110, 97, 116, 117, 114, 101>>  \* "energy_signature"
T_quantum_entanglement_key == <<113, 117, 97, 110, 116, 117, 109, 95, 101, 110, 116, 97, 110, 103, 108, 101, 109, 101, 110, 116, 95, 107, 101, 121>>  \* "quantum_entanglement_key"
T_source_device == <<115, 111, 117, 114, 99, 101, 95, 100, 101, 118, 105, 99, 101>>  \* "source_device"
T_target_device == <<116, 97, 114, 103, 101, 116, 95, 100, 101, 118, 105, 99, 101>>  \* "target_device"
T_intention_strength == <<105, 110, 116, 101, 110, 116, 105, 111, 110, 95, 115, 116, 114, 101, 110, 103, 116, 104>>  \* "intention_strength"
T_sacred_encoding == <<115, 97, 99, 114, 101, 100, 95, 101, 110, 99, 111, 100, 105, 110, 103>>  \* "sacred_encoding"
T_sacred_python_platform == <<115, 97, 99, 114, 101, 100, 45, 112, 121, 116, 104, 111, 110, 45, 112, 108, 97, 116, 102, 111, 114, 109>>  \* "sacred-python-platform"
T_merkaba_torus_fibonacci == <<109, 101, 114, 107, 97, 98, 97, 45, 116, 111, 114, 117, 115, 45, 102, 105, 98, 111, 110, 97, 99, 99, 105>>  \* "merkaba-torus-fibonacci"
T_torus == <<116, 111, 114, 117, 115>>  \* "torus"
T_merkaba == <<109, 101, 114, 107, 97, 98, 97>>  \* "merkaba"
T_broadcast == <<98, 114, 111, 97, 100, 99, 97, 115, 116>>  \* "broadcast"
T_null == <<110, 117, 108, 108>>  \* "null"
T_true == <<116, 114, 117, 101>>  \* "true"
T_false == <<102, 97, 108, 115, 101>>  \* "false"

\* -------------------------------------------------------------- json.dumps
Hex(n) == IF n < 10 THEN 48 + n ELSE 87 + n
Hex4(n) == <<Hex(n \div 4096), Hex((n \div 256) % 16), Hex((n \div 16) % 16), Hex(n % 16)>>

\* the concatenation of the texts ss[lo], ..., ss[hi]
RECURSIVE JoinAll(_, _, _)
JoinAll(ss, lo, hi) ==
    IF lo > hi THEN <<>>
    ELSE IF lo = hi THEN ss[lo]
    ELSE LET mid == (lo + hi) \div 2
         IN  JoinAll(ss, lo, mid) \o JoinAll(ss, mid + 1, hi)

\* json.dumps of one character of a string (ensure_ascii): everything outside
\* space..~ and the characters " and \ are written as escapes, a character above
\* the basic plane as a surrogate pair
EscapeChar(c) ==
    IF c = 34 THEN <<92, 34>>
    ELSE IF c = 92 THEN <<92, 92>>
    ELSE IF c = 10 THEN <<92, 110>>
    ELSE IF c = 13 THEN <<92, 114>>
    ELSE IF c = 9 THEN <<92, 116>>
    ELSE IF c = 8 THEN <<92, 98>>
    ELSE IF c = 12 THEN <<92, 102>>
    ELSE IF c >= 32 /\ c <= 126 THEN <<c>>
    ELSE IF c < 65536 THEN <<92, 117>> \o Hex4(c)
    ELSE <<92, 117>> \o Hex4(55296 + ((c - 65536) \div 1024))
         \o <<92, 117>> \o Hex4(56320 + ((c - 65536) % 1024))

EncodeString(s) ==
    <<34>> \o JoinAll([i \in 1..Len(s) |-> EscapeChar(s[i])], 1, Len(s)) \o <<34>>

RECURSIVE Digits(_)
Digits(n) == IF n < 10 THEN <<48 + n>> ELSE Digits(n \div 10) \o <<48 + (n % 10)>>

IntRepr(n) == IF n < 0 THEN <<45>> \o Digits(-n) ELSE Digits(n)

RECURSIVE Pow10(_)
Pow10(e) == IF e = 0 THEN 1 ELSE 10 * Pow10(e - 1)

\* the float v / 10^e without trailing zeros below its first decimal
RECURSIVE Normalize(_, _)
Normalize(v, e) ==
    IF e > 1 /\ v % 10 = 0 THEN Normalize(v \div 10, e - 1) ELSE PyFloat(v, e)

\* the digits of n, zero-padded on the left to `width` digits
RECURSIVE Padded(_, _)
Padded(n, width) ==
    IF width = 0 THEN <<>> ELSE Padded(n \div 10, width - 1) \o <<48 + (n % 10)>>

\* float.__repr__ of v / 10^e
FloatRepr(v, e) ==
    LET f == Normalize(v, e)
        a == IF f.v < 0 THEN -f.v ELSE f.v
    IN  (IF f.v < 0 THEN <<45>> ELSE <<>>)
        \o Digits(a \div Pow10(f.e)) \o <<46>> \o Padded(a % Pow10(f.e), f.e)

RECURSIVE Dumps(_), DumpItems(_, _), DumpElems(_, _)
\* json.dumps(v) with the default separators
Dumps(v) ==
    IF v.k = "None" THEN T_null
    ELSE IF v.k = "bool" THEN (IF v.b THEN T_true ELSE T_false)
    ELSE IF v.k = "str" THEN EncodeString(v.s)
    ELSE IF v.k = "int" THEN IntRepr(v.v)
    ELSE IF v.k = "num" THEN FloatRepr(v.v, v.e)
    ELSE IF v.k = "dict" THEN <<123>> \o DumpItems(v.items, 1) \o <<125>>
    ELSE <<91>> \o DumpElems(v.elems, 1) \o <<93>>

DumpItems(items, i) ==
    IF i > Len(items) THEN <<>>
    ELSE (IF i > 1 THEN <<44, 32>> ELSE <<>>)
         \o EncodeString(items[i][1]) \o <<58, 32>> \o Dumps(items[i][2])
         \o DumpItems(items, i + 1)

DumpElems(elems, i) ==
    IF i > Len(elems) THEN <<>>
    ELSE (IF i > 1 THEN <<44, 32>> ELSE <<>>) \o Dumps(elems[i]) \o DumpElems(elems, i + 1)

\* --------------------------------------------------------- str.encode, base64
\* the UTF-8 bytes of one character
Utf8Bytes(c) ==
    IF c < 128 THEN <<c>>
    ELSE IF c < 2048 THEN <<192 + (c \div 64), 128 + (c % 64)>>
    ELSE IF c < 65536 THEN <<224 + (c \div 4096), 128 + ((c \div 64) % 64), 128 + (c % 64)>>
    ELSE <<240 + (c \div 262144), 128 + ((c \div 4096) % 64),
           128 + ((c \div 64) % 64), 128 + (c % 64)>>

Utf8Encode(text) == JoinAll([i \in 1..Len(text) |-> Utf8Bytes(text[i])], 1, Len(text))

\* the character of the base64 alphabet for a 6-bit value
B64Char(n) ==
    IF n < 26 THEN 65 + n
    ELSE IF n < 52 THEN 71 + n
    ELSE IF n < 62 THEN n - 4
    ELSE IF n = 62 THEN 43 ELSE 47

\* base64.b64encode(bytes), as text
b64encode(bytes) ==
    LET n == Len(bytes)
        At(i) == IF i <= n THEN bytes[i] ELSE 0
    IN  [j \in 1..(4 * ((n + 2) \div 3)) |->
            LET g == (j - 1) \div 4
                q == (j - 1) % 4
                b1 == At(3 * g + 1)
                b2 == At(3 * g + 2)
                b3 == At(3 * g + 3)
            IN  IF q = 0 THEN B64Char(b1 \div 4)
                ELSE IF q = 1 THEN B64Char((b1 % 4) * 16 + (b2 \div 16))
                ELSE IF q = 2 THEN (IF 3 * g + 2 > n THEN 61
                                    ELSE B64Char((b2 % 16) * 4 + (b3 \div 64)))
                ELSE (IF 3 * g + 3 > n THEN 61 ELSE B64Char(b3 % 64))]


\* ------------------------------------------------------- base64.b64decode
\* the 6-bit value of a character of the base64 alphabet, 64 for any other
B64Value(c) ==
    IF c >= 65 /\ c <= 90 THEN c - 65
    ELSE IF c >= 97 /\ c <= 122 THEN c - 71
    ELSE IF c >= 48 /\ c <= 57 THEN c + 4
    ELSE IF c = 43 THEN 62
    ELSE IF c = 47 THEN 63 ELSE 64

IsB64Data(c) == B64Value(c) < 64
IsB64DataOrPad(c) == IsB64Data(c) \/ c = 61

\* binascii.a2b_base64 without validation: the bytes of the data characters d
\* (whole groups of four, and a last group of two or three)
B64Bytes(d) ==
    [j \in 1..((Len(d) * 6) \div 8) |->
        LET g == (j - 1) \div 3
            r == (j - 1) % 3
            v1 == B64Value(d[4 * g + 1 + r])
            v2 == B64Value(d[4 * g + 2 + r])
        IN  IF r = 0 THEN v1 * 4 + (v2 \div 16)
            ELSE IF r = 1 THEN (v1 % 16) * 16 + (v2 \div 4)
            ELSE (v1 % 4) * 64 + v2]

\* base64.b64decode(text): text outside ASCII is refused; characters outside the
\* alphabet are discarded; decoding stops at the padding that completes a group
\* of four; data characters that end inside a group are an error
b64decode(text) ==
    IF \E i \in 1..Len(text) : text[i] > 127 THEN Raise("ValueError")
    ELSE
    LET f == SelectSeq(text, IsB64DataOrPad)
        pads == {i \in 1..Len(f) : f[i] = 61}
        \* quad_pos when f[i] is read: the data characters before it, modulo 4
        quad(i) == ((i - 1) - Cardinality({j \in pads : j < i})) % 4
        stops == {i \in pads : \/ quad(i) = 3
                               \/ quad(i) = 2 /\ (i - 1) \in pads}
        stop == CHOOSE i \in stops : \A j \in stops : i <= j
        d == IF stops = {} THEN SelectSeq(f, IsB64Data)
             ELSE SelectSeq(SubSeq(f, 1, stop - 1), IsB64Data)
    IN  IF stops = {} /\ Len(d) % 4 # 0 THEN Raise("binascii.Error")
        ELSE Returned(B64Bytes(d))

\* ----------------------------------------------------- bytes.decode('utf-8')
IsContinuation(b) == b >= 128 /\ b <= 191

\* the length of the UTF-8 sequence a byte starts, 0 when it starts none
Utf8Length(b) ==
    IF b < 128 THEN 1
    ELSE IF b >= 194 /\ b <= 223 THEN 2
    ELSE IF b >= 224 /\ b <= 239 THEN 3
    ELSE IF b >= 240 /\ b <= 244 THEN 4 ELSE 0

\* bytes.decode('utf-8'): the text of well-formed UTF-8, an error otherwise
Utf8Decode(bytes) ==
    LET n == Len(bytes)
        starts == {i \in 1..n : ~IsContinuation(bytes[i])}
        WellFormed(i) ==
            LET len == Utf8Length(bytes[i])
            IN  /\ len > 0
                /\ i + len - 1 <= n
                /\ \A j \in (i + 1)..(i + len - 1) : IsContinuation(bytes[j])
                /\ (i + len <= n) => ~IsContinuation(bytes[i + len])
                /\ bytes[i] = 224 => bytes[i + 1] >= 160
                /\ bytes[i] = 237 => bytes[i + 1] <= 159
                /\ bytes[i] = 240 => bytes[i + 1] >= 144
                /\ bytes[i] = 244 => bytes[i + 1] <= 143
        Point(i) ==
            LET len == Utf8Length(bytes[i])
            IN  IF len = 1 THEN bytes[i]
                ELSE IF len = 2 THEN (bytes[i] - 192) * 64 + (bytes[i + 1] - 128)
                ELSE IF len = 3 THEN (bytes[i] - 224) * 4096 + (bytes[i + 1] - 128) * 64
                                     + (bytes[i + 2] - 128)
                ELSE (bytes[i] - 240) * 262144 + (bytes[i + 1] - 128) * 4096
                     + (bytes[i + 2] - 128) * 64 + (bytes[i + 3] - 128)
        IsPoint(x) == x >= 0
    IN  IF (n > 0 /\ 1 \notin starts) \/ \E i \in starts : ~WellFormed(i)
        THEN Raise("UnicodeDecodeError")
        ELSE Returned(SelectSeq([i \in 1..n |-> IF i \in starts THEN Point(i) ELSE -1],
                                IsPoint))


\* -------------------------------------------------------------- json.loads
\* The result of scanning one value: the value and the index after it.  Numbers
\* with an exponent and the literals NaN and Infinity are not scanned: no text
\* of the model holds one.
Scanned(v, next) == [ok |-> TRUE, v |-> v, next |-> next]
NoScan == [ok |-> FALSE, v |-> None, next |-> 0]

IsSpace(c) == c \in {32, 9, 10, 13}
IsDigit(c) == c >= 48 /\ c <= 57
IsHexDigit(c) == IsDigit(c) \/ (c >= 97 /\ c <= 102) \/ (c >= 65 /\ c <= 70)
HexValue(c) == IF IsDigit(c) THEN c - 48 ELSE IF c >= 97 THEN c - 87 ELSE c - 55

\* s[i], or 0 beyond the end of s
CharAt(s, i) == IF i >= 1 /\ i <= Len(s) THEN s[i] ELSE 0

\* the first index from i on that holds no whitespace (Len(s) + 1 if none)
SkipSpace(s, i) ==
    CHOOSE j \in i..(Len(s) + 1) :
        /\ j = Len(s) + 1 \/ ~IsSpace(s[j])
        /\ \A k \in i..(j - 1) : IsSpace(s[k])

\* the first index from i on that holds no digit (Len(s) + 1 if none)
SkipDigits(s, i) ==
    CHOOSE j \in i..(Len(s) + 1) :
        /\ j = Len(s) + 1 \/ ~IsDigit(s[j])
        /\ \A k \in i..(j - 1) : IsDigit(s[k])

\* the number written by the digits s[lo..hi]
RECURSIVE DigitsValue(_, _, _)
DigitsValue(s, lo, hi) ==
    IF lo > hi THEN 0 ELSE 10 * DigitsValue(s, lo, hi - 1) + (s[hi] - 48)

\* a number at s[i]: -?(0|[1-9][0-9]*)(\.[0-9]+)?
ScanNumber(s, i) ==
    LET p == IF CharAt(s, i) = 45 THEN i + 1 ELSE i
        q == IF CharAt(s, p) = 48 THEN p + 1 ELSE SkipDigits(s, p)
        hasFrac == CharAt(s, q) = 46 /\ IsDigit(CharAt(s, q + 1))
        r == IF hasFrac THEN SkipDigits(s, q + 1) ELSE q
        sign == IF p > i THEN -1 ELSE 1
    IN  IF ~IsDigit(CharAt(s, p)) THEN NoScan
        ELSE IF hasFrac
        THEN Scanned(Normalize(sign * (DigitsValue(s, p, q - 1) * Pow10(r - q - 1)
                                       + DigitsValue(s, q + 1, r - 1)),
                               r - q - 1), r)
        ELSE Scanned(PyInt(sign * DigitsValue(s, p, q - 1)), r)

\* the number of backslashes that stand immediately before s[j], from index lo on
SlashesBefore(s, lo, j) ==
    CHOOSE n \in 0..(j - lo) :
        /\ \A k \in (j - n)..(j - 1) : s[k] = 92
        /\ n = j - lo \/ s[j - n - 1] # 92

\* s[j] is a quote that no backslash escapes, in the string literal begun at s[i]
ClosesString(s, i, j) == s[j] = 34 /\ SlashesBefore(s, i + 1, j) % 2 = 0

IsHighSurrogate(c) == c >= 55296 /\ c <= 56319
IsLowSurrogate(c) == c >= 56320 /\ c <= 57343
IsCodePoint(x) == x >= 0

\* the characters that the body c of a string literal denotes: escapes
\* replaced, and a high surrogate followed by a low one joined
Unescape(c) ==
    LET n == Len(c)
        escapes == {i \in 1..n : c[i] = 92 /\ SlashesBefore(c, 1, i) % 2 = 0}
        Span(i) == IF CharAt(c, i + 1) = 117 THEN 6 ELSE 2
        Valid(i) ==
            IF CharAt(c, i + 1) = 117
            THEN \A j \in (i + 2)..(i + 5) : IsHexDigit(CharAt(c, j))
            ELSE CharAt(c, i + 1) \in {34, 92, 47, 98, 102, 110, 114, 116}
        Denoted(i) ==
            LET e == c[i + 1]
            IN  IF e = 117 THEN HexValue(c[i + 2]) * 4096 + HexValue(c[i + 3]) * 256
                                + HexValue(c[i + 4]) * 16 + HexValue(c[i + 5])
                ELSE IF e = 98 THEN 8
                ELSE IF e = 102 THEN 12
                ELSE IF e = 110 THEN 10
                ELSE IF e = 114 THEN 13
                ELSE IF e = 116 THEN 9
                ELSE e
        Covered(i) == \E k \in escapes : k < i /\ i < k + Span(k)
        units == SelectSeq([i \in 1..n |-> IF i \in escapes THEN Denoted(i)
                                           ELSE IF Covered(i) THEN -1 ELSE c[i]],
                           IsCodePoint)
        m == Len(units)
        Pair(k) == k < m /\ IsHighSurrogate(units[k]) /\ IsLowSurrogate(units[k + 1])
    IN  IF \E i \in 1..n : c[i] < 32 THEN Raise("JSONDecodeError")
        ELSE IF \E i \in escapes : ~Valid(i) THEN Raise("JSONDecodeError")
        ELSE Returned(SelectSeq(
                 [k \in 1..m |->
                     IF Pair(k) THEN 65536 + (units[k] - 55296) * 1024 + (units[k + 1] - 56320)
                     ELSE IF k > 1 /\ Pair(k - 1) THEN -1
                     ELSE units[k]],
                 IsCodePoint))

\* a string literal at s[i] = '"'
ScanString(s, i) ==
    LET end == CHOOSE j \in (i + 1)..Len(s) :
                   /\ ClosesString(s, i, j)
                   /\ \A k \in (i + 1)..(j - 1) : ~ClosesString(s, i, k)
        u == Unescape(SubSeq(s, i + 1, end - 1))
    IN  IF \A j \in (i + 1)..Len(s) : ~ClosesString(s, i, j) THEN NoScan
        ELSE IF u.raised THEN NoScan
        ELSE Scanned(PyStr(u.value), end + 1)

\* dict[key] = value: a key met again keeps its place and takes the new value
SetItem(items, key, value) ==
    IF \E i \in 1..Len(items) : items[i][1] = key
    THEN [i \in 1..Len(items) |-> IF items[i][1] = key THEN <<key, value>> ELSE items[i]]
    ELSE Append(items, <<key, value>>)

IsLiteral(s, i, lit) == i + Len(lit) - 1 <= Len(s) /\ SubSeq(s, i, i + Len(lit) - 1) = lit

RECURSIVE ScanValue(_, _), ScanItems(_, _, _), ScanElems(_, _, _)
RECURSIVE ItemsAfterKey(_, _, _), ItemsAfterValue(_, _, _, _), ItemsAfter(_, _, _)
RECURSIVE ElemsAfterValue(_, _, _), ElemsAfter(_, _, _)
\* scan_once: the value that starts at s[i]
ScanValue(s, i) ==
    IF CharAt(s, i) = 34 THEN ScanString(s, i)
    ELSE IF CharAt(s, i) = 123
    THEN (IF CharAt(s, SkipSpace(s, i + 1)) = 125
          THEN Scanned(PyDict(<<>>), SkipSpace(s, i + 1) + 1)
          ELSE ScanItems(s, SkipSpace(s, i + 1), <<>>))
    ELSE IF CharAt(s, i) = 91
    THEN (IF CharAt(s, SkipSpace(s, i + 1)) = 93
          THEN Scanned(PyList(<<>>), SkipSpace(s, i + 1) + 1)
          ELSE ScanElems(s, SkipSpace(s, i + 1), <<>>))
    ELSE IF IsLiteral(s, i, T_null) THEN Scanned(None, i + 4)
    ELSE IF IsLiteral(s, i, T_true) THEN Scanned(PyBool(TRUE), i + 4)
    ELSE IF IsLiteral(s, i, T_false) THEN Scanned(PyBool(FALSE), i + 5)
    ELSE ScanNumber(s, i)

\* JSONObject from the key at s[i] on; items holds the pairs read so far
ScanItems(s, i, items) ==
    IF CharAt(s, i) # 34 THEN NoScan ELSE ItemsAfterKey(s, items, ScanString(s, i))

\* ... the key is read: a colon and the value follow
ItemsAfterKey(s, items, key) ==
    IF ~key.ok THEN NoScan
    ELSE IF CharAt(s, SkipSpace(s, key.next)) # 58 THEN NoScan
    ELSE ItemsAfterValue(s, items, key.v.s,
                         ScanValue(s, SkipSpace(s, SkipSpace(s, key.next) + 1)))

\* ... the value is read: a key met again keeps its place and takes the new value
ItemsAfterValue(s, items, key, val) ==
    IF ~val.ok THEN NoScan
    ELSE ItemsAfter(s, SetItem(items, key, val.v), SkipSpace(s, val.next))

\* ... the pair is stored: the object ends at s[i], or a comma and a key follow
ItemsAfter(s, items, i) ==
    IF CharAt(s, i) = 125 THEN Scanned(PyDict(items), i + 1)
    ELSE IF CharAt(s, i) # 44 THEN NoScan
    ELSE ScanItems(s, SkipSpace(s, i + 1), items)

\* JSONArray from the element at s[i] on
ScanElems(s, i, elems) == ElemsAfterValue(s, elems, ScanValue(s, i))

\* ... the element is read
ElemsAfterValue(s, elems, val) ==
    IF ~val.ok THEN NoScan
    ELSE ElemsAfter(s, Append(elems, val.v), SkipSpace(s, val.next))

\* ... the element is stored: the array ends at s[i], or a comma and an element follow
ElemsAfter(s, elems, i) ==
    IF CharAt(s, i) = 93 THEN Scanned(PyList(elems), i + 1)
    ELSE IF CharAt(s, i) # 44 THEN NoScan
    ELSE ScanElems(s, SkipSpace(s, i + 1), elems)

\* JSONDecoder.decode: nothing but whitespace may follow the value
Decoded(text, r) ==
    IF ~r.ok THEN Raise("JSONDecodeError")
    ELSE IF SkipSpace(text, r.next) <= Len(text) THEN Raise("JSONDecodeError")
    ELSE Returned(r.v)

\* json.loads(text)
Loads(text) == Decoded(text, ScanValue(text, SkipSpace(text, 1)))

\* container[key] for a string key
GetItem(container, key) ==
    IF container.k # "dict" THEN Raise("TypeError")
    ELSE IF \E i \in 1..Len(container.items) : container.items[i][1] = key
    THEN Returned(container.items[CHOOSE i \in 1..Len(container.items) :
                                      container.items[i][1] = key][2])
    ELSE Raise("KeyError")

\* ------------------------------------------------------------ the packet
\* PacketType.INTENTION.value
PacketType_INTENTION == 1

\* the exception classes raised in the model; each derives from Exception
ExceptionClasses ==
    {"ValueError", "binascii.Error", "UnicodeDecodeError", "JSONDecodeError",
     "KeyError", "TypeError"}

RECURSIVE WeightedSum(_, _, _, _)
WeightedSum(bytes, k, lo, hi) ==
    IF lo > hi THEN 0
    ELSE IF lo = hi THEN ((bytes[lo] + 1) * (2 * ((lo + k) % 64) + 1)) % 65536
    ELSE LET mid == (lo + hi) \div 2
         IN  (WeightedSum(bytes, k, lo, mid) + WeightedSum(bytes, k, mid + 1, hi)) % 65536

\* hashlib.sha256(bytes).hexdigest()[:16].  SHA-256 itself is not computed: the
\* digest of the model is another function of the bytes, sixteen hex digits
\* long: four weighted sums of the bytes, of four hex digits each.
Digest16(bytes) ==
    LET sums == [k \in 1..4 |-> (WeightedSum(bytes, 16 * k, 1, Len(bytes)) + Len(bytes)) % 65536]
    IN  Hex4(sums[1]) \o Hex4(sums[2]) \o Hex4(sums[3]) \o Hex4(sums[4])

\* a checksum taken before there is a payload to digest
StaleChecksum(payload) == Digest16(<<>>)

\* IntentionPacket._calculate_checksum
calculate_checksum(payload) == Digest16(Utf8Encode(payload))

\* a strength that is the quotient alone, without the cap of min
strength_uncapped(intention, frequency) ==
    IF frequency.k \notin {"int", "num"} THEN Raise("TypeError")
    ELSE Returned(Normalize(Len(intention) * frequency.v,
                            (IF frequency.k = "int" THEN 0 ELSE frequency.e) + 2))

\* min((len(intention) * frequency) / 100, 100): a float, or the int 100 when the
\* quotient exceeds it.  The quotient is taken exactly, without the rounding of
\* binary floating point.
intention_strength(intention, frequency) ==
    IF frequency.k \notin {"int", "num"} THEN Raise("TypeError")
    ELSE LET e == (IF frequency.k = "int" THEN 0 ELSE frequency.e) + 2
             product == Len(intention) * frequency.v
         IN  IF product > 100 * Pow10(e) THEN Returned(PyInt(100))
             ELSE Returned(Normalize(product, e))

\* PacketHeader.__init__ with the counter at `counter` and the clock at `now`
PacketHeader(packet_type, payload_length, counter, now) ==
    [version |-> 1, type |-> packet_type, length |-> payload_length,
     sequence_id |-> counter, timestamp |-> now, checksum |-> None]

\* PacketHeader.to_dict
header_to_dict(header) ==
    PyDict(<< <<T_version, PyInt(header.version)>>,
              <<T_type, PyInt(header.type)>>,
              <<T_length, PyInt(header.length)>>,
              <<T_sequenceId, PyInt(header.sequence_id)>>,
              <<T_timestamp, PyInt(header.timestamp)>>,
              <<T_checksum, header.checksum>> >>)

\* IntentionPacket.__init__ with the counter at `counter`, the clock at `now` and
\* `energy_signature` and `quantum_key` the two tokens that secrets.token_hex gives
IntentionPacket(intention, frequency, field_type, target_device, energy_signature, quantum_key, counter, now) ==
    LET strength == intention_strength(intention, frequency)
        payload == PyDict(<< <<T_intention, PyStr(intention)>>,
                             <<T_frequency, frequency>>,
                             <<T_field_type, PyStr(field_type)>>,
                             <<T_energy_signature, PyStr(energy_signature)>>,
                             <<T_quantum_entanglement_key, PyStr(quantum_key)>> >>)
        payload_str == Dumps(payload)
        header == PacketHeader(PacketType_INTENTION, Len(payload_str), counter, now)
    IN  IF strength.raised THEN strength
        ELSE Returned(
            [intention |-> intention,
             frequency |-> frequency,
             payload |-> payload,
             header |-> [header EXCEPT !.checksum = PyStr(calculate_checksum(payload_str))],
             metadata |-> PyDict(<< <<T_source_device, PyStr(T_sacred_python_platform)>>,
                                    <<T_target_device, PyStr(target_device)>>,
                                    <<T_intention_strength, strength.value>>,
                                    <<T_sacred_encoding, PyStr(T_merkaba_torus_fibonacci)>> >>)])

\* IntentionPacket.to_dict
to_dict(packet) ==
    PyDict(<< <<T_header, header_to_dict(packet.header)>>,
              <<T_payload, packet.payload>>,
              <<T_metadata, packet.metadata>> >>)

\* IntentionPacket.to_json
to_json(packet) == Dumps(to_dict(packet))

\* IntentionPacket.to_base64
to_base64(packet) == b64encode(Utf8Encode(to_json(packet)))

\* r[key] when the statement before gave r, or the exception it raised
Subscript(r, key) == IF r.raised THEN r ELSE GetItem(r.value, key)

\* json.loads(json_str) when the statement before gave json_str
LoadsNext(json_str) == IF json_str.raised THEN json_str ELSE Loads(json_str.value)

\* raw.decode('utf-8') when base64.b64decode gave raw
DecodeNext(raw) == IF raw.raised THEN raw ELSE Utf8Decode(raw.value)

\* the try block of extract_intention_from_packet: the value it returns, or
\* the exception that its first failing statement raises
ExtractIntention(packet_base64) ==
    Subscript(Subscript(LoadsNext(DecodeNext(b64decode(packet_base64))), T_payload),
              T_intention)

\* an except clause that takes the errors of json.loads alone
CaughtJSONOnly(exc) == exc = "JSONDecodeError"

\* except Exception in extract_intention_from_packet: the exceptions it takes
CaughtOnExtract(exc) == exc \in ExceptionClasses

\* the except clause of extract_intention_from_packet, for the outcome r of its
\* try block: an exception taken is logged, and None is returned
OrNone(r) == IF r.raised /\ CaughtOnExtract(r.exc) THEN Returned(None) ELSE r

\* extract_intention_from_packet: the value returned, or the exception that
\* leaves the function
extract_intention_from_packet(packet_base64) ==
    OrNone(ExtractIntention(packet_base64))

VARIABLES
    WEBSOCKET_CLIENTS,  \* the registry: set of connection handles
    SEQUENCE_COUNTER,   \* the process-wide packet counter
    sock,               \* per connection: the transport, "open", "stalled" or "closed"
    inbox,              \* per connection: inbound messages received and not yet handled
    pc,                 \* per connection: where its handler is suspended
    req,                \* per connection: the request being handled
    pub,                \* per connection: its broadcast_message call in progress (or last)
    wire,               \* per connection: the messages handed to its transport, in order
    nsent,              \* number of messages the clients have sent so far
    built,              \* the sequenceIds of the packets built, in build order
    calls,              \* number of broadcast_message calls made so far
    exitPath,           \* per connection: how its handler left ("" while it runs)
    packet,             \* the IntentionPacket last built outside the hub, or None
    packet_base64,      \* the transport text at hand, or None
    origin,             \* where packet_base64 comes from
    extracted,          \* what extract_intention_from_packet(packet_base64) gave
    call,               \* the PatternEngine call made last, outside the hub
    result,             \* what that call returned or raised
    wallClock,          \* the wall clock: what datetime.now() gives
    earlier             \* a call made before: the descriptor it gave, the minute it was made in

hubVars == <<WEBSOCKET_CLIENTS, sock, inbox, pc, req, pub, wire, nsent, calls, exitPath>>
codecVars == <<packet, packet_base64, origin, extracted>>
patternVars == <<call, result, wallClock, earlier>>
vars == <<WEBSOCKET_CLIENTS, SEQUENCE_COUNTER, sock, inbox, pc, req, pub, wire,
          nsent, built, calls, exitPath, packet, packet_base64, origin, extracted,
          call, result, wallClock, earlier>>

\* ------------------------------------------------------------ messages
\* a message that is born with an envelope
WSMessageWithPacket(msg_type, data) ==
    [type |-> msg_type, data |-> data, packet_data |-> PyStr(<<>>)]

\* WSMessage.__init__: a typed message without an envelope
WSMessage(msg_type, data) == [type |-> msg_type, data |-> data, packet_data |-> None]

\* an inbound client message: the parsed body, or one that json.loads rejects
Request(type, intention, frequency, boost, duration) ==
    [wellformed |-> TRUE, type |-> type, intention |-> intention,
     frequency |-> frequency, boost |-> boost, duration |-> duration]
Garbage == [wellformed |-> FALSE, type |-> "", intention |-> NoText,
            frequency |-> Num(SCHUMANN_RESONANCE), boost |-> FALSE, duration |-> 60]
NoRequest == [wellformed |-> FALSE, type |-> "none", intention |-> NoText,
              frequency |-> Num(SCHUMANN_RESONANCE), boost |-> FALSE, duration |-> 60]

\* the inbound messages the clients of the model send
Requests ==
    { Garbage,
      Request("SYSTEM", Love, Num(SCHUMANN_RESONANCE), FALSE, 60),
      Request("INTENTION", Love, Num(SCHUMANN_RESONANCE), FALSE, 60),
      Request("INTENTION", Love, Num(SCHUMANN_RESONANCE), TRUE, 60),
      Request("INTENTION", NoText, Num(SCHUMANN_RESONANCE), TRUE, 60),
      Request("INTENTION", Love, Num(0), FALSE, 60),
      Request("INTENTION", Love, NotANumber, FALSE, 60),
      Request("MERKABA", Love, Num(SCHUMANN_RESONANCE), FALSE, 60),
      Request("MERKABA", NoText, Num(SCHUMANN_RESONANCE), FALSE, 60),
      Request("METATRON", Love, Num(SCHUMANN_RESONANCE), TRUE, 60),
      Request("SRI_YANTRA", Love, Num(SCHUMANN_RESONANCE), FALSE, 60),
      Request("FLOWER_OF_LIFE", Love, Num(SCHUMANN_RESONANCE), FALSE, 0),
      Request("FLOWER_OF_LIFE", Love, Num(SCHUMANN_RESONANCE), FALSE, 60) }

\* -------------------------------------------------------- pattern engine
\* a Torus generator that does not look at its frequency
torus_any_frequency(intention, hz) ==
    IF intention = NoText THEN Raise("ValueError")
    ELSE Returned([intention |-> intention, torus_frequency |-> hz])

torus_field_generator(intention, hz) ==
    IF intention = NoText THEN Raise("ValueError")
    ELSE IF hz.k \notin {"int", "num"} THEN Raise("TypeError")
    ELSE IF hz.v <= 0 THEN Raise("ValueError")
    ELSE Returned([intention |-> intention, torus_frequency |-> hz])

merkaba_field_generator(intention, frequency) ==
    IF intention = NoText THEN Raise("ValueError")
    ELSE IF frequency.k \notin {"int", "num"} THEN Raise("TypeError")
    ELSE IF frequency.v <= 0 THEN Raise("ValueError")
    ELSE Returned([intention |-> intention, merkaba_frequency |-> frequency])

\* FIBONACCI and PLANETARY_ANGLES, in the order of the source
FIBONACCI == <<1, 1, 2, 3, 5, 8, 13, 21, 34, 55, 89, 144, 233, 377, 610, 987>>
PLANETARY_ANGLES ==
    << <<"sun", 0>>, <<"moon", 30>>, <<"mercury", 60>>, <<"venus", 90>>, <<"mars", 120>>,
       <<"jupiter", 150>>, <<"saturn", 180>>, <<"uranus", 210>>, <<"neptune", 240>>,
       <<"pluto", 270>> >>

\* sum(ord(c) for c in intention)
RECURSIVE CharCodeSum(_)
CharCodeSum(intention) ==
    IF intention = <<>> THEN 0 ELSE Head(intention) + CharCodeSum(Tail(intention))

\* a remainder that is left at 0
RemainderAlone(intention) == CharCodeSum(intention) % 9

\* sum(ord(c) for c in intention) % 9 or 9
DigitRoot(intention) ==
    IF CharCodeSum(intention) % 9 = 0 THEN 9 ELSE CharCodeSum(intention) % 9

\* next((f for f in FIBONACCI if f >= multiplier), FIBONACCI[-1])
FibonacciMultiplier(multiplier) ==
    IF \E i \in 1..Len(FIBONACCI) : FIBONACCI[i] >= multiplier
    THEN FIBONACCI[CHOOSE i \in 1..Len(FIBONACCI) :
                       /\ FIBONACCI[i] >= multiplier
                       /\ \A j \in 1..(i - 1) : FIBONACCI[j] < multiplier]
    ELSE FIBONACCI[Len(FIBONACCI)]

\* (now.hour * 15) + (now.minute / 4), in quarters of a degree
CosmicDegree(t) == t.hour * 60 + t.minute

\* the planet whose angle is nearest to the cosmic degree, the first of the table
\* among equals (the loop replaces its candidate on a strictly smaller difference)
ClosestPlanet(degree) ==
    LET abs(x) == IF x < 0 THEN -x ELSE x
        diff(i) == abs(4 * PLANETARY_ANGLES[i][2] - degree)
        best == CHOOSE i \in 1..Len(PLANETARY_ANGLES) :
                    /\ \A j \in 1..Len(PLANETARY_ANGLES) : diff(i) <= diff(j)
                    /\ \A j \in 1..(i - 1) : diff(j) > diff(i)
    IN  PLANETARY_ANGLES[best][1]

\* max(duration, int(duration * PHI)), PHI taken to six decimals
OptimalDuration(duration) ==
    LET scaled == (duration * 1618034) \div 1000000
    IN  IF scaled > duration THEN scaled ELSE duration

\* a FlowerOfLife generator that reads the seconds of the clock as well
flower_reading_seconds(intention, duration) ==
    IF intention = NoText THEN Raise("ValueError")
    ELSE IF duration <= 0 THEN Raise("ValueError")
    ELSE Returned([intention |-> intention,
                   planetary_alignment |-> ClosestPlanet(CosmicDegree(wallClock)),
                   cosmic_degree |-> 60 * CosmicDegree(wallClock) + wallClock.second,
                   optimal_duration |-> OptimalDuration(duration)])

\* flower_of_life_pattern: of the descriptor, the fields that do not come from
\* a digest.  The function reads the hour and the minute of the wall clock.
flower_of_life_pattern(intention, duration) ==
    IF intention = NoText THEN Raise("ValueError")
    ELSE IF duration <= 0 THEN Raise("ValueError")
    ELSE Returned([intention |-> intention,
                   planetary_alignment |-> ClosestPlanet(CosmicDegree(wallClock)),
                   cosmic_degree |-> CosmicDegree(wallClock),
                   optimal_duration |-> OptimalDuration(duration)])

metatrons_cube_amplifier(intention, boost) ==
    IF intention = NoText THEN Raise("ValueError")
    ELSE Returned([intention |-> intention, boost |-> boost,
                   harmonic |-> DigitRoot(intention)])

sri_yantra_encoder(intention) ==
    IF intention = NoText THEN Raise("ValueError")
    ELSE Returned([intention |-> intention])

divine_proportion_amplify(intention, multiplier) ==
    IF intention = NoText THEN Raise("ValueError")
    ELSE Returned([original |-> intention,
                   fibonacci_multiplier |-> FibonacciMultiplier(multiplier),
                   metatronic_alignment |-> DigitRoot(intention)])

\* ---------------------------------------------------------------- envelope
\* a counter that is read and not moved on
StaleSequence(counter) == counter

\* a counter that is moved on twice for one packet
SkipSequence(counter) == counter + 2

\* PacketHeader.__init__: the header takes the counter's value, and the counter
\* moves on by one
NextSequence(counter) == counter + 1

\* embed_intention_in_network_packet with the counter at `counter`: the packet,
\* kept as what it was built from (to_base64 gives its text); the call raises,
\* before the header is made, when the intention strength cannot be computed
embed_intention_in_network_packet(intention, frequency, counter) ==
    IF intention_strength(intention, frequency).raised
    THEN intention_strength(intention, frequency)
    ELSE Returned([sequenceId |-> counter, intention |-> intention,
                   frequency |-> frequency])

\* an add_packet_data without its except clause
CaughtNothing(exc) == FALSE

\* except Exception in WSMessage.add_packet_data: the exceptions it takes
CaughtOnEmbed(exc) == exc \in ExceptionClasses

\* an add_packet_data whose build makes the header first: a build that fails
\* has taken a sequenceId all the same
add_packet_data_header_first(message, intention, frequency, counter, history) ==
    IF message.type = "INTENTION" /\ intention # NoText
    THEN LET r == embed_intention_in_network_packet(intention, frequency, counter)
         IN  IF r.raised
             THEN [message |-> message, counter |-> NextSequence(counter),
                   built |-> Append(history, counter),
                   raised |-> ~CaughtOnEmbed(r.exc)]
             ELSE [message |-> [message EXCEPT !.packet_data = r.value],
                   counter |-> NextSequence(counter),
                   built |-> Append(history, r.value.sequenceId),
                   raised |-> FALSE]
    ELSE [message |-> message, counter |-> counter, built |-> history, raised |-> FALSE]

\* WSMessage.add_packet_data: the message, the counter and the build history
\* after the call, and the exception that leaves it if one does
add_packet_data(message, intention, frequency, counter, history) ==
    IF message.type = "INTENTION" /\ intention # NoText
    THEN LET r == embed_intention_in_network_packet(intention, frequency, counter)
         IN  IF r.raised
             THEN [message |-> message, counter |-> counter, built |-> history,
                   raised |-> ~CaughtOnEmbed(r.exc)]
             ELSE [message |-> [message EXCEPT !.packet_data = r.value],
                   counter |-> NextSequence(counter),
                   built |-> Append(history, r.value.sequenceId),
                   raised |-> FALSE]
    ELSE [message |-> message, counter |-> counter, built |-> history, raised |-> FALSE]

\* -------------------------------------------------------------- the hub
NoPub == [message |-> WSMessage("none", None), stage |-> "none", snapshot |-> {},
          todo |-> {}, cur |-> NoConn, ok |-> {}, failed |-> {}, active |-> FALSE]

\* a handler that amplifies whether the flag is set or not
AmplifyAlways(stage, r) ==
    IF stage = "echo" THEN (IF r.intention # NoText THEN "Sleep1" ELSE "Listening")
    ELSE IF stage = "torus" THEN "Sleep2"
    ELSE "Listening"

\* a handler that goes on to the Torus step whether there is an intention or not
TorusWithoutIntention(stage, r) ==
    IF stage = "echo" THEN "Sleep1"
    ELSE IF stage = "torus" THEN (IF r.boost THEN "Sleep2" ELSE "Listening")
    ELSE "Listening"

\* a handler that goes on to the delayed Torus step after every publish of a
\* descriptor
TorusAfterEvery(stage, r) ==
    IF stage \in {"echo", "single"} THEN (IF r.intention # NoText THEN "Sleep1" ELSE "Listening")
    ELSE IF stage = "torus" THEN (IF r.boost THEN "Sleep2" ELSE "Listening")
    ELSE "Listening"

\* where the handler goes when the broadcast of `stage` for request r has returned
AfterBroadcast(stage, r) ==
    IF stage = "echo" THEN (IF r.intention # NoText THEN "Sleep1" ELSE "Listening")
    ELSE IF stage = "torus" THEN (IF r.boost THEN "Sleep2" ELSE "Listening")
    ELSE "Listening"

\* a failed delivery that removes nobody
DiscardedNone(w) == {}

\* a failed delivery that empties the registry
DiscardedAll(w) == Conns

\* the subscribers a failed delivery removes: the one whose send raised
Discarded(w) == {w}

\* the members that a publish call has called websocket.send for
Attempted(p) == p.ok \cup p.failed \cup (IF p.cur = NoConn THEN {} ELSE {p.cur})

\* a loop over the registry as it is now
RemainingLive(p, reg) == reg \ Attempted(p)

\* for websocket in list(WEBSOCKET_CLIENTS): the members of the list made when
\* the loop began that the loop has yet to come to
Remaining(p, reg) == p.todo

\* a text made anew for each recipient, with an envelope of its own
message_str_each(p, w) ==
    IF p.message.packet_data = None THEN p.message
    ELSE [p.message EXCEPT !.packet_data.sequenceId = @ + w]

\* message_str = message.to_json(), made once before the loop: the text that
\* recipient w is sent
message_str(p, w) == p.message

\* the for loop of broadcast_message from its next iteration on, up to the next
\* suspension: p is the call's state and reg the registry as the code run so far
\* in this step has left it
Fanout(c, p, reg, r) ==
    IF Remaining(p, reg) = {}
    THEN /\ WEBSOCKET_CLIENTS' = reg
         /\ pub' = [pub EXCEPT ![c] = [p EXCEPT !.active = FALSE, !.cur = NoConn]]
         /\ pc' = [pc EXCEPT ![c] = AfterBroadcast(p.stage, r)]
         /\ UNCHANGED wire
    ELSE \E w \in Remaining(p, reg) :
           IF sock[w] = "closed"
           THEN /\ WEBSOCKET_CLIENTS' = reg \ Discarded(w)
                /\ pub' = [pub EXCEPT ![c] = [p EXCEPT !.todo = @ \ {w}, !.cur = NoConn,
                                                        !.failed = @ \cup {w}]]
                /\ pc' = [pc EXCEPT ![c] = "Fanout"]
                /\ UNCHANGED wire
           ELSE /\ WEBSOCKET_CLIENTS' = reg
                /\ wire' = [wire EXCEPT ![w] = Append(@, message_str(p, w))]
                /\ pub' = [pub EXCEPT ![c] = [p EXCEPT !.todo = @ \ {w}, !.cur = w]]
                /\ pc' = [pc EXCEPT ![c] = "Fanout"]

\* ------------------------------------------------------------ the handler
\* a handler that ends without its finally clause
StillSubscribed(reg, c) == reg

\* the finally clause of handle_websocket: the handle leaves the registry
Unsubscribe(reg, c) == reg \ {c}

\* a removal that insists on the handle being there, as set.remove does
RaisesWhenAbsent(reg, c) == c \notin reg

\* set.discard raises nothing, whether the handle is in the set or not
DiscardRaises(reg, c) == FALSE

\* the handler of c ends by `path`: (except Exception,) finally.  An exception
\* raised in the finally clause would leave the handler.
Leave(c, reg, path) ==
    /\ WEBSOCKET_CLIENTS' = Unsubscribe(reg, c)
    /\ pc' = [pc EXCEPT ![c] = "Closed"]
    /\ exitPath' = [exitPath EXCEPT ![c] = IF DiscardRaises(reg, c) THEN "KeyError"
                                           ELSE path]

\* await websocket.send(message) on the handler's own connection, up to the
\* suspension: send raises on a closed connection, and the handler ends by `path`
SendOwn(c, reg, message, next, path) ==
    IF sock[c] = "closed"
    THEN /\ Leave(c, reg, path)
         /\ UNCHANGED wire
    ELSE /\ wire' = [wire EXCEPT ![c] = Append(@, message)]
         /\ WEBSOCKET_CLIENTS' = reg
         /\ pc' = [pc EXCEPT ![c] = next]
         /\ UNCHANGED exitPath

Welcome == WSMessage("SYSTEM", [message |-> "Connected to Sacred Computing Platform"])
InvalidFormat == WSMessage("SYSTEM", [error |-> "Invalid message format"])
ProcessingError == WSMessage("SYSTEM", [error |-> "Error processing message"])

\* a handler without its except json.JSONDecodeError clause
CaughtByNoClause(exc) == FALSE

\* except json.JSONDecodeError: the exceptions that clause takes
CaughtAsDecodeError(exc) == exc = "JSONDecodeError"

\* a handler without its except Exception clause around one message
CaughtOutsideLoop(exc) == FALSE

\* except Exception around the handling of one message: the exceptions it takes
CaughtOnMessage(exc) == exc \in ExceptionClasses

\* the handling of one inbound message by c raised exc, the registry being reg:
\* the except clause that takes it sends its reply on c's own connection; an
\* exception that neither takes ends the handler by the outer except and finally
OnError(c, reg, exc) ==
    IF CaughtAsDecodeError(exc) THEN SendOwn(c, reg, InvalidFormat, "Reply", "reply")
    ELSE IF CaughtOnMessage(exc) THEN SendOwn(c, reg, ProcessingError, "Reply", "reply")
    ELSE /\ Leave(c, reg, "error")
         /\ UNCHANGED wire

\* a publish that never returns early
SubscribersAssumed(reg) == FALSE

\* if not WEBSOCKET_CLIENTS
NoSubscribers(reg) == reg = {}

\* broadcast_message, called by the handler of c, up to its first suspension.  An
\* exception that left it would be taken by the handler's except Exception.
broadcast_message(c, message, stage, r) ==
    /\ calls' = calls + 1
    /\ IF NoSubscribers(WEBSOCKET_CLIENTS)
       THEN /\ pub' = [pub EXCEPT ![c] = [NoPub EXCEPT !.message = message, !.stage = stage]]
            /\ pc' = [pc EXCEPT ![c] = AfterBroadcast(stage, r)]
            /\ UNCHANGED <<WEBSOCKET_CLIENTS, SEQUENCE_COUNTER, built, wire, exitPath>>
       ELSE LET a == IF message.type = "INTENTION" /\ "intention" \in DOMAIN message.data
                     THEN add_packet_data(message, message.data.intention,
                                          IF "frequency" \in DOMAIN message.data
                                          THEN message.data.frequency
                                          ELSE Num(SCHUMANN_RESONANCE),
                                          SEQUENCE_COUNTER, built)
                     ELSE [message |-> message, counter |-> SEQUENCE_COUNTER,
                           built |-> built, raised |-> FALSE]
            IN  /\ SEQUENCE_COUNTER' = a.counter
                /\ built' = a.built
                /\ IF a.raised
                   THEN /\ SendOwn(c, WEBSOCKET_CLIENTS, ProcessingError, "Reply", "reply")
                        /\ UNCHANGED pub
                   ELSE /\ Fanout(c, [message |-> a.message, stage |-> stage,
                                      snapshot |-> WEBSOCKET_CLIENTS,
                                      todo |-> WEBSOCKET_CLIENTS,
                                      cur |-> NoConn, ok |-> {}, failed |-> {},
                                      active |-> TRUE],
                                  WEBSOCKET_CLIENTS, r)
                        /\ UNCHANGED exitPath


\* a handler that greets without registering
NotJoined(reg, c) == reg

\* WEBSOCKET_CLIENTS.add(websocket)
Joined(reg, c) == reg \cup {c}

\* handle_websocket from its start to the send of the welcome message
Subscribe(c) ==
    /\ pc[c] = "Connected"
    /\ SendOwn(c, Joined(WEBSOCKET_CLIENTS, c), Welcome, "Welcome", "welcome")
    /\ UNCHANGED <<SEQUENCE_COUNTER, sock, inbox, req, pub, nsent, built, calls>>
    /\ UNCHANGED codecVars
    /\ UNCHANGED patternVars

\* the send of the welcome message or of an error reply returns, or raises when
\* the connection was lost meanwhile
SendReturns(c) ==
    /\ pc[c] \in {"Welcome", "Reply"}
    /\ sock[c] # "stalled"
    /\ IF sock[c] = "closed"
       THEN Leave(c, WEBSOCKET_CLIENTS, IF pc[c] = "Welcome" THEN "welcome" ELSE "reply")
       ELSE /\ pc' = [pc EXCEPT ![c] = "Listening"]
            /\ UNCHANGED <<WEBSOCKET_CLIENTS, exitPath>>
    /\ UNCHANGED <<SEQUENCE_COUNTER, sock, inbox, req, pub, wire, nsent, built, calls>>
    /\ UNCHANGED codecVars
    /\ UNCHANGED patternVars

\* async for: no message is left and the connection is closed; the loop ends
\* after a closing handshake, and raises ConnectionClosedError when the
\* connection was lost without one
Disconnected(c) ==
    /\ pc[c] = "Listening"
    /\ inbox[c] = <<>>
    /\ sock[c] = "closed"
    /\ \E path \in {"disconnect", "lost"} : Leave(c, WEBSOCKET_CLIENTS, path)
    /\ UNCHANGED <<SEQUENCE_COUNTER, sock, inbox, req, pub, wire, nsent, built, calls>>
    /\ UNCHANGED codecVars
    /\ UNCHANGED patternVars

\* the descriptor an inbound request of the four single-step types asks for
Descriptor(m) ==
    IF m.type = "MERKABA" THEN merkaba_field_generator(m.intention, m.frequency)
    ELSE IF m.type = "METATRON" THEN metatrons_cube_amplifier(m.intention, m.boost)
    ELSE IF m.type = "SRI_YANTRA" THEN sri_yantra_encoder(m.intention)
    ELSE flower_of_life_pattern(m.intention, m.duration)

SingleStep == {"MERKABA", "METATRON", "SRI_YANTRA", "FLOWER_OF_LIFE"}

\* a chain of branches that ends in an else branch with an error reply
RepliedTo(c) ==
    /\ SendOwn(c, WEBSOCKET_CLIENTS, ProcessingError, "Reply", "reply")
    /\ UNCHANGED <<SEQUENCE_COUNTER, pub, built, calls>>

\* the if/elif chain has no branch for the type and no else: the iteration
\* ends, and the handler asks for the next message
Ignored(c) ==
    UNCHANGED <<WEBSOCKET_CLIENTS, SEQUENCE_COUNTER, pc, pub, wire, built, calls, exitPath>>

\* a loop that takes the newest message first
LastInbound(queue) == queue[Len(queue)]

\* async for message in websocket: the message that arrived first
NextInbound(queue) == Head(queue)

\* one iteration of async for: the next inbound message, up to the first suspension
Receive(c) ==
    /\ pc[c] = "Listening"
    /\ inbox[c] # <<>>
    /\ LET m == NextInbound(inbox[c]) IN
       /\ inbox' = [inbox EXCEPT ![c] = Tail(@)]
       /\ req' = [req EXCEPT ![c] = m]
       /\ IF ~m.wellformed
          THEN /\ OnError(c, WEBSOCKET_CLIENTS, "JSONDecodeError")
               /\ UNCHANGED <<SEQUENCE_COUNTER, pub, built, calls>>
          ELSE IF m.type = "INTENTION"
          THEN /\ broadcast_message(c,
                      WSMessage("INTENTION",
                                [intention |-> m.intention, frequency |-> m.frequency,
                                 boost |-> m.boost, multiplier |-> 1]),
                      "echo", m)
          ELSE IF m.type \in SingleStep
          THEN LET d == Descriptor(m) IN
               IF d.raised
               THEN /\ OnError(c, WEBSOCKET_CLIENTS, d.exc)
                    /\ UNCHANGED <<SEQUENCE_COUNTER, pub, built, calls>>
               ELSE broadcast_message(c, WSMessage(m.type, d.value), "single", m)
          ELSE Ignored(c)
    /\ UNCHANGED <<sock, nsent>>
    /\ UNCHANGED codecVars
    /\ UNCHANGED patternVars

\* asyncio.sleep(0.5) returns: the Torus step, or the DivineAmplify step
Wake(c) ==
    /\ pc[c] \in {"Sleep1", "Sleep2"}
    /\ LET m == req[c]
           d == IF pc[c] = "Sleep1"
                THEN torus_field_generator(m.intention, m.frequency)
                ELSE divine_proportion_amplify(m.intention, 1)
       IN  IF d.raised
           THEN /\ OnError(c, WEBSOCKET_CLIENTS, d.exc)
                /\ UNCHANGED <<SEQUENCE_COUNTER, pub, built, calls>>
           ELSE IF pc[c] = "Sleep1"
                THEN broadcast_message(c, WSMessage("TORUS_FIELD", d.value), "torus", m)
                ELSE broadcast_message(c, WSMessage("INTENTION", d.value), "amplify", m)
    /\ UNCHANGED <<sock, inbox, req, nsent>>
    /\ UNCHANGED codecVars
    /\ UNCHANGED patternVars

\* the send of broadcast_message's loop returns or raises, and the loop goes on
Deliver(c) ==
    /\ pc[c] = "Fanout"
    /\ LET p == pub[c] IN
       /\ p.cur # NoConn => sock[p.cur] # "stalled"
       /\ IF p.cur = NoConn
          THEN Fanout(c, p, WEBSOCKET_CLIENTS, req[c])
          ELSE IF sock[p.cur] = "closed"
          THEN Fanout(c, [p EXCEPT !.failed = @ \cup {p.cur}],
                      WEBSOCKET_CLIENTS \ Discarded(p.cur), req[c])
          ELSE Fanout(c, [p EXCEPT !.ok = @ \cup {p.cur}], WEBSOCKET_CLIENTS, req[c])
    /\ UNCHANGED <<SEQUENCE_COUNTER, sock, inbox, req, nsent, built, calls, exitPath>>
    /\ UNCHANGED codecVars
    /\ UNCHANGED patternVars

\* ------------------------------------------------------- the environment
\* a client sends a message on its open connection
ClientSends(c) ==
    /\ sock[c] # "closed"
    /\ nsent < MaxInbound
    /\ \E m \in Requests : inbox' = [inbox EXCEPT ![c] = Append(@, m)]
    /\ nsent' = nsent + 1
    /\ UNCHANGED <<WEBSOCKET_CLIENTS, SEQUENCE_COUNTER, sock, pc, req, pub, wire, built,
                   calls, exitPath>>
    /\ UNCHANGED codecVars
    /\ UNCHANGED patternVars

\* a client stops reading: sends to it no longer drain
ClientStalls(c) ==
    /\ sock[c] = "open"
    /\ sock' = [sock EXCEPT ![c] = "stalled"]
    /\ UNCHANGED <<WEBSOCKET_CLIENTS, SEQUENCE_COUNTER, inbox, pc, req, pub, wire, nsent,
                   built, calls, exitPath>>
    /\ UNCHANGED codecVars
    /\ UNCHANGED patternVars

\* a client that had stopped reading reads again
ClientResumes(c) ==
    /\ sock[c] = "stalled"
    /\ sock' = [sock EXCEPT ![c] = "open"]
    /\ UNCHANGED <<WEBSOCKET_CLIENTS, SEQUENCE_COUNTER, inbox, pc, req, pub, wire, nsent,
                   built, calls, exitPath>>
    /\ UNCHANGED codecVars
    /\ UNCHANGED patternVars

\* the first message that any client sends
ClientSendsFirst(c) ==
    /\ nsent = 0
    /\ ClientSends(c)

\* a connection is closed or lost
ClientCloses(c) ==
    /\ sock[c] # "closed"
    /\ sock' = [sock EXCEPT ![c] = "closed"]
    /\ UNCHANGED <<WEBSOCKET_CLIENTS, SEQUENCE_COUNTER, inbox, pc, req, pub, wire, nsent,
                   built, calls, exitPath>>
    /\ UNCHANGED codecVars
    /\ UNCHANGED patternVars

\* -------------------------------------------------------------- the codec
MaxLen == 2
MaxBuilds == 1

\* the characters of the intentions: L, the quote, an emoji beyond the basic
\* plane, and a high and a low surrogate
Alphabet == {76, 34, 128512, 55357, 56832}
Intentions == UNION {[1..n -> Alphabet] : n \in 0..MaxLen}
Frequencies == {PyFloat(4320, 1), PyInt(528), NotANumber}
FieldTypes == {T_torus, T_merkaba}

\* "Healing and peace"
HealingAndPeace ==
    <<72, 101, 97, 108, 105, 110, 103, 32, 97, 110, 100, 32, 112, 101, 97, 99, 101>>

\* the intention and frequency of the builds: every pair of the above, and the
\* phrase at the reference resonance and at the highest Solfeggio frequency
BuildArguments ==
    (Intentions \X Frequencies)
        \cup {<<HealingAndPeace, Num(SCHUMANN_RESONANCE)>>, <<HealingAndPeace, PyInt(963)>>}

\* a pair of tokens that secrets.token_hex(8) and secrets.token_hex(16) give:
\* sixteen and thirty-two hex digits
Tokens ==
    { <<<<100, 101, 97, 100, 98, 101, 101, 102, 99, 97, 102, 101, 48, 49, 50, 51>>, <<48, 49, 50, 51, 52, 53, 54, 55, 56, 57, 97, 98, 99, 100, 101, 102, 48, 49, 50, 51, 52, 53, 54, 55, 56, 57, 97, 98, 99, 100, 101, 102>>>> }

\* int(time.time() * 1000), counted from the first build of the model
Clock == {1000}

\* texts that no packet of this program serializes to: JSON documents ...
ForeignJson ==
    { <<123, 125>>,  \* {}
      <<123, 34, 112, 97, 121, 108, 111, 97, 100, 34, 58, 32, 123, 125, 125>>,  \* {"payload": {}}
      <<123, 34, 112, 97, 121, 108, 111, 97, 100, 34, 58, 32, 123, 34, 105, 110, 116, 101, 110, 116, 105, 111, 110, 34, 58, 32, 110, 117, 108, 108, 125, 125>>,  \* {"payload": {"intention": null}}
      <<123, 34, 112, 97, 121, 108, 111, 97, 100, 34, 58, 32, 34, 105, 110, 116, 101, 110, 116, 105, 111, 110, 34, 125>>,  \* {"payload": "intention"}
      <<91, 49, 93>>,  \* [1]
      <<123, 34, 112, 97, 121, 108, 111, 97, 100, 34, 58, 32, 123, 34, 105, 110, 116, 101, 110, 116, 105, 111, 110, 34, 58, 32, 34, 120, 34, 125>>,  \* {"payload": {"intention": "x"}
      <<123, 34, 112, 97, 121, 108, 111, 97, 100, 34, 58, 32, 123, 34, 105, 110, 116, 101, 110, 116, 105, 111, 110, 34, 58, 32, 34, 120, 34, 125, 125, 32, 120>>,  \* {"payload": {"intention": "x"}} x
      <<123, 34, 104, 101, 97, 100, 101, 114, 34, 58, 32, 123, 125, 44, 32, 34, 112, 97, 121, 108, 111, 97, 100, 34, 58, 32, 123, 34, 105, 110, 116, 101, 110, 116, 105, 111, 110, 34, 58, 32, 34, 76, 111, 118, 101, 34, 125, 125>> }  \* {"header": {}, "payload": {"intention": "Love"}}

\* ... and bytes that are no UTF-8, both base64-encoded, and texts that are no base64
ForeignTexts ==
    {b64encode(Utf8Encode(t)) : t \in ForeignJson}
        \cup {b64encode(<<255, 254>>), <<>>, <<33, 33, 33>>, <<233>>, <<81>>, <<81, 81>>}

\* what a transport text may become on its way: a character added behind, or
\* the last character or the last four lost
Damaged(text) ==
    { Append(text, 33), SubSeq(text, 1, Len(text) - 1), SubSeq(text, 1, Len(text) - 4) }

NotCalled == [called |-> FALSE]

\* a caller of IntentionPacket(intention, frequency, field_type)
BuildPacket ==
    /\ SEQUENCE_COUNTER < MaxBuilds
    /\ packet = None
    /\ packet_base64 = None
    /\ \E arguments \in BuildArguments, field_type \in FieldTypes,
          token \in Tokens, now \in Clock :
          LET r == IntentionPacket(arguments[1], arguments[2], field_type, T_broadcast,
                                   token[1], token[2], SEQUENCE_COUNTER, now)
          IN  IF r.raised
              THEN /\ packet' = None
                   /\ UNCHANGED <<SEQUENCE_COUNTER, built>>
              ELSE /\ packet' = r.value
                   /\ SEQUENCE_COUNTER' = NextSequence(SEQUENCE_COUNTER)
                   /\ built' = Append(built, r.value.header.sequence_id)
    /\ packet_base64' = None
    /\ origin' = "none"
    /\ extracted' = NotCalled
    /\ UNCHANGED hubVars
    /\ UNCHANGED patternVars

\* packet.to_base64()
Serialize ==
    /\ packet # None
    /\ packet_base64 = None
    /\ packet_base64' = PyStr(to_base64(packet))
    /\ origin' = "packet"
    /\ UNCHANGED <<SEQUENCE_COUNTER, built, packet, extracted>>
    /\ UNCHANGED hubVars
    /\ UNCHANGED patternVars

\* the transport text is altered before it is decoded
Damage ==
    /\ origin = "packet"
    /\ extracted = NotCalled
    /\ \E text \in Damaged(packet_base64.s) : packet_base64' = PyStr(text)
    /\ origin' = "damaged"
    /\ UNCHANGED <<SEQUENCE_COUNTER, built, packet, extracted>>
    /\ UNCHANGED hubVars
    /\ UNCHANGED patternVars

\* a text from elsewhere is handed to the decoder
ReceiveText ==
    /\ packet = None
    /\ packet_base64 = None
    /\ \E text \in ForeignTexts : packet_base64' = PyStr(text)
    /\ origin' = "foreign"
    /\ UNCHANGED <<SEQUENCE_COUNTER, built, packet, extracted>>
    /\ UNCHANGED hubVars
    /\ UNCHANGED patternVars

\* extract_intention_from_packet(packet_base64)
Extract ==
    /\ packet_base64 # None
    /\ extracted = NotCalled
    /\ extracted' = extract_intention_from_packet(packet_base64.s)
    /\ UNCHANGED <<SEQUENCE_COUNTER, built, packet, packet_base64, origin>>
    /\ UNCHANGED hubVars
    /\ UNCHANGED patternVars

\* the caller lets go of the packet, the text and the result
Release ==
    /\ extracted # NotCalled
    /\ packet' = None
    /\ packet_base64' = None
    /\ origin' = "none"
    /\ extracted' = NotCalled
    /\ UNCHANGED <<SEQUENCE_COUNTER, built>>
    /\ UNCHANGED hubVars
    /\ UNCHANGED patternVars


\* ------------------------------------------------- the pattern engine alone
\* the six generators of SacredGeometryCalculator
PatternFunctions ==
    {"torus_field_generator", "merkaba_field_generator", "flower_of_life_pattern",
     "metatrons_cube_amplifier", "sri_yantra_encoder", "divine_proportion_amplify"}

\* the arguments of the calls: intentions, and numbers that serve as frequency
\* (in hundredths of a hertz), duration or multiplier
PatternIntentions == {NoText, Love, <<72>>}
PatternNumbers == {-783, -1, 0, 1, 60, 783}

NoCall == [fn |-> "none", intention |-> NoText, number |-> 0, flag |-> FALSE]

\* times of day: two in one minute, and one in another hour
Times ==
    { [hour |-> 0, minute |-> 0, second |-> 0],
      [hour |-> 0, minute |-> 0, second |-> 30],
      [hour |-> 13, minute |-> 30, second |-> 0] }
StartTime == [hour |-> 0, minute |-> 0, second |-> 0]

\* the wall-clock minute of a time
Minute(t) == [hour |-> t.hour, minute |-> t.minute]

NoEarlier == [call |-> NoCall, result |-> None, at |-> Minute(StartTime)]

\* the generators whose second argument is a number
TakesNumber ==
    {"torus_field_generator", "merkaba_field_generator", "flower_of_life_pattern",
     "divine_proportion_amplify"}

\* fn(intention, ...) with `number` or `flag` as its second argument
CallOf(fn, intention, number, flag) ==
    IF fn = "torus_field_generator" THEN torus_field_generator(intention, Num(number))
    ELSE IF fn = "merkaba_field_generator"
    THEN merkaba_field_generator(intention, Num(number))
    ELSE IF fn = "flower_of_life_pattern" THEN flower_of_life_pattern(intention, number)
    ELSE IF fn = "metatrons_cube_amplifier" THEN metatrons_cube_amplifier(intention, flag)
    ELSE IF fn = "sri_yantra_encoder" THEN sri_yantra_encoder(intention)
    ELSE divine_proportion_amplify(intention, number)

\* a caller of one of the generators
CallPattern ==
    /\ \E fn \in PatternFunctions, intention \in PatternIntentions,
          number \in PatternNumbers, flag \in BOOLEAN :
          /\ fn \notin TakesNumber => number = 0
          /\ fn # "metatrons_cube_amplifier" => flag = FALSE
          /\ call' = [fn |-> fn, intention |-> intention, number |-> number,
                      flag |-> flag]
          /\ result' = CallOf(fn, intention, number, flag)
          /\ \/ earlier' = earlier
             \/ /\ ~CallOf(fn, intention, number, flag).raised
                /\ earlier' = [call |-> call', result |-> result', at |-> Minute(wallClock)]
    /\ UNCHANGED wallClock
    /\ UNCHANGED hubVars
    /\ UNCHANGED codecVars
    /\ UNCHANGED <<SEQUENCE_COUNTER, built>>

\* time passes, or the clock is set
Tick ==
    /\ \E t \in Times \ {wallClock} : wallClock' = t
    /\ UNCHANGED <<call, result, earlier>>
    /\ UNCHANGED hubVars
    /\ UNCHANGED codecVars
    /\ UNCHANGED <<SEQUENCE_COUNTER, built>>

\* a caller of embed_intention_in_network_packet between two calls of the
\* generators: a packet is built, and the counter moves on
BuildBetween ==
    /\ SEQUENCE_COUNTER < MaxBuilds
    /\ LET r == embed_intention_in_network_packet(Love, Num(SCHUMANN_RESONANCE),
                                                  SEQUENCE_COUNTER)
       IN  /\ ~r.raised
           /\ SEQUENCE_COUNTER' = NextSequence(SEQUENCE_COUNTER)
           /\ built' = Append(built, r.value.sequenceId)
    /\ UNCHANGED hubVars
    /\ UNCHANGED codecVars
    /\ UNCHANGED patternVars

\* ------------------------------------------------------- specification
Init ==
    /\ WEBSOCKET_CLIENTS = {}
    /\ SEQUENCE_COUNTER = 0
    /\ sock = [c \in Conns |-> "open"]
    /\ inbox = [c \in Conns |-> <<>>]
    /\ pc = [c \in Conns |-> "Connected"]
    /\ req = [c \in Conns |-> NoRequest]
    /\ pub = [c \in Conns |-> NoPub]
    /\ wire = [c \in Conns |-> <<>>]
    /\ nsent = 0
    /\ built = <<>>
    /\ calls = 0
    /\ exitPath = [c \in Conns |-> ""]
    /\ packet = None
    /\ packet_base64 = None
    /\ origin = "none"
    /\ extracted = NotCalled
    /\ call = NoCall
    /\ result = None
    /\ wallClock = StartTime
    /\ earlier = NoEarlier

\* the server: handlers and clients
Next ==
    \E c \in Conns :
        \/ Subscribe(c)
        \/ SendReturns(c)
        \/ Disconnected(c)
        \/ Receive(c)
        \/ Wake(c)
        \/ Deliver(c)
        \/ ClientSends(c)
        \/ ClientCloses(c)

Spec == Init /\ [][Next]_vars

\* the server with clients that may stop reading, and one request in all.  The
\* event loop runs every task that is ready: a handler that can go on does.
FairNext ==
    \E c \in Conns :
        \/ Subscribe(c)
        \/ SendReturns(c)
        \/ Disconnected(c)
        \/ Receive(c)
        \/ Wake(c)
        \/ Deliver(c)
        \/ ClientSendsFirst(c)
        \/ ClientStalls(c)
        \/ ClientResumes(c)
        \/ ClientCloses(c)

FairSpec ==
    /\ Init
    /\ [][FairNext]_vars
    /\ \A c \in Conns :
           /\ WF_vars(Subscribe(c))
           /\ WF_vars(SendReturns(c))
           /\ WF_vars(Disconnected(c))
           /\ WF_vars(Receive(c))
           /\ WF_vars(Wake(c))
           /\ WF_vars(Deliver(c))

\* the packet codec on its own: packets built, serialized and decoded
CodecNext ==
    \/ BuildPacket
    \/ Serialize
    \/ Damage
    \/ ReceiveText
    \/ Extract
    \/ Release

CodecSpec == Init /\ [][CodecNext]_vars

\* the pattern engine on its own: calls with arguments of every kind
PatternNext ==
    \/ CallPattern
    \/ Tick
    \/ BuildBetween

PatternSpec == Init /\ [][PatternNext]_vars

\* ---------------------------------------------------------- properties
\* C1: no two packets built, by handlers whose publishes overlap in any way,
\* carry the same sequenceId.
C1_SequenceUnique ==
    \A i, j \in 1..Len(built) : i # j => built[i] # built[j]

\* two publishes by different handlers are in progress, each with its envelope
C1_Witness ==
    \E c, d \in Conns :
        /\ c # d
        /\ pub[c].active /\ pub[c].message.packet_data # None
        /\ pub[d].active /\ pub[d].message.packet_data # None

\* C2: a step of a publish call removes from the registry exactly the
\* subscriber whose delivery failed in it, and when the call returns every
\* member of its snapshot was attempted, the message went out to each member
\* whose delivery did not fail, and no member whose delivery failed is registered.
C2_FanoutIsolation ==
    [][\A c \in Conns :
          pub'[c] # pub[c] =>
              LET p == pub'[c]
                  before == IF calls' = calls THEN pub[c].failed ELSE {}
              IN  /\ WEBSOCKET_CLIENTS \ WEBSOCKET_CLIENTS'
                         = (p.failed \ before) \cap WEBSOCKET_CLIENTS
                  /\ ~p.active =>
                         /\ p.ok \cup p.failed = p.snapshot
                         /\ p.ok \cap p.failed = {}
                         /\ p.failed \cap WEBSOCKET_CLIENTS' = {}
                         /\ \A w \in p.ok :
                                \E i \in 1..Len(wire'[w]) : wire'[w][i] = p.message
      ]_vars

\* a publish to all NConn subscribers has returned: one delivery failed, that
\* subscriber is gone, and the others got the message and are registered
C2_Witness ==
    \E c \in Conns :
        /\ ~pub[c].active
        /\ pub[c].snapshot = Conns
        /\ Cardinality(pub[c].failed) = 1
        /\ pub[c].ok = Conns \ pub[c].failed
        /\ WEBSOCKET_CLIENTS = pub[c].ok

\* C3: if, within a publish, the send to one subscriber stays pending for ever,
\* every other member of the snapshot is still attempted at some time.
C3_SlowSubscriberBlocksNobody ==
    \A c, w \in Conns :
        <>[](pc[c] = "Fanout" /\ pub[c].cur = w) => <>(pub[c].active /\ pub[c].todo = {})

\* C4: a connection whose handler has ended, by whichever path, is not in the
\* registry, whatever publishes are still running.
C4_UnsubscribedOnExit ==
    \A c \in Conns :
        pc[c] = "Closed" =>
            /\ c \notin WEBSOCKET_CLIENTS
            /\ exitPath[c] \in {"welcome", "reply", "disconnect", "lost"}

\* a handler has ended while a publish that took it into its snapshot, and has
\* not yet come to it, is still running
C4_Witness ==
    \E c, d \in Conns :
        /\ c # d
        /\ pc[c] = "Closed"
        /\ pub[d].active
        /\ c \in pub[d].snapshot
        /\ c \in pub[d].todo

\* C11: unsubscribe is idempotent.  In every step the registry loses exactly the
\* handles whose handler ended or whose delivery failed in that step, whether
\* they were still in it or not: removing an absent handle changes nothing for
\* the other members and raises no error, the handler ends by one of its paths.
C11_UnsubscribeIdempotent ==
    [][LET left == {c \in Conns : pc[c] # "Closed" /\ pc'[c] = "Closed"}
           joined == {c \in Conns : pc[c] = "Connected" /\ pc'[c] # "Connected"}
           failedNow == UNION {IF pub'[c] = pub[c] THEN {}
                               ELSE IF calls' = calls THEN pub'[c].failed \ pub[c].failed
                               ELSE pub'[c].failed : c \in Conns}
       IN  /\ WEBSOCKET_CLIENTS' = (WEBSOCKET_CLIENTS \cup joined) \ (left \cup failedNow)
           /\ \A c \in left \ joined :
                  /\ exitPath'[c] \in {"welcome", "reply", "disconnect", "lost"}
                  /\ c \notin WEBSOCKET_CLIENTS
                         => WEBSOCKET_CLIENTS' = WEBSOCKET_CLIENTS \ failedNow
      ]_vars

\* a handle that a publish removed after a failed delivery was removed again by
\* its handler's exit, and the publisher is still a member
C11_Witness ==
    \E c, d \in Conns :
        /\ c # d
        /\ c \in pub[d].failed
        /\ pc[c] = "Closed"
        /\ exitPath[c] \in {"disconnect", "lost"}
        /\ d \in WEBSOCKET_CLIENTS

\* C12: when a handler takes an inbound message whose body does not parse, it
\* makes no publish call: the counter, the build history, the calls in progress,
\* every other handler and every other connection's transport stay as they were.
\* On an open connection the one thing handed out is the SYSTEM reply "Invalid
\* message format" to that connection, and the registry is unchanged; when the
\* connection is closed already the send raises, nothing is handed out and the
\* handler ends.  The return of that send hands out nothing more.
C12_ParseErrorRepliedToSender ==
    [][\A c \in Conns :
          /\ (Len(inbox'[c]) < Len(inbox[c]) /\ ~Head(inbox[c]).wellformed)
                 => /\ calls' = calls /\ pub' = pub
                    /\ SEQUENCE_COUNTER' = SEQUENCE_COUNTER /\ built' = built
                    /\ \A w \in Conns \ {c} : wire'[w] = wire[w] /\ pc'[w] = pc[w]
                    /\ IF sock[c] # "closed"
                       THEN /\ Len(wire'[c]) = Len(wire[c]) + 1
                            /\ SubSeq(wire'[c], 1, Len(wire[c])) = wire[c]
                            /\ wire'[c][Len(wire'[c])].type = "SYSTEM"
                            /\ wire'[c][Len(wire'[c])].data
                                   = [error |-> "Invalid message format"]
                            /\ wire'[c][Len(wire'[c])].packet_data = None
                            /\ WEBSOCKET_CLIENTS' = WEBSOCKET_CLIENTS
                            /\ pc'[c] = "Reply"
                       ELSE /\ wire'[c] = wire[c]
                            /\ WEBSOCKET_CLIENTS' = WEBSOCKET_CLIENTS \ {c}
                            /\ pc'[c] = "Closed"
          /\ (pc[c] = "Reply" /\ pc'[c] # "Reply")
                 => /\ wire' = wire /\ calls' = calls /\ pub' = pub
                    /\ SEQUENCE_COUNTER' = SEQUENCE_COUNTER
      ]_vars

\* with two subscribers, one sent a body that does not parse and is back in its
\* loop: it holds the welcome and the reply, the other the welcome alone
C12_Witness ==
    \E c, d \in Conns :
        /\ c # d
        /\ WEBSOCKET_CLIENTS = {c, d}
        /\ ~req[c].wellformed /\ req[c].type = ""
        /\ pc[c] = "Listening"
        /\ wire[c] = <<Welcome, InvalidFormat>>
        /\ wire[d] = <<Welcome>>

\* C13: when the handling of a message by c raises (a generator rejects its
\* arguments, at once or after a delay), that step makes no publish call and
\* touches no other handler or transport; on an open connection c is handed the
\* SYSTEM reply "Error processing message", stays registered and waits for the
\* send to return.  When the send returns on a connection that is still open the
\* handler is back in Listening, registered as before, with its inbox untouched.
C13_ErrorCaughtPerMessage ==
    [][\A c \in Conns :
          LET m == IF pc[c] = "Listening" THEN Head(inbox[c]) ELSE req[c]
              raised ==
                  \/ /\ pc[c] = "Listening" /\ Len(inbox'[c]) < Len(inbox[c])
                     /\ m.wellformed /\ m.type \in SingleStep /\ Descriptor(m).raised
                  \/ /\ pc[c] = "Sleep1" /\ pc'[c] # "Sleep1"
                     /\ torus_field_generator(m.intention, m.frequency).raised
                  \/ /\ pc[c] = "Sleep2" /\ pc'[c] # "Sleep2"
                     /\ divine_proportion_amplify(m.intention, 1).raised
          IN  /\ raised
                 => /\ calls' = calls /\ pub' = pub
                    /\ \A w \in Conns \ {c} : wire'[w] = wire[w] /\ pc'[w] = pc[w]
                    /\ sock[c] # "closed"
                           => /\ wire'[c] = Append(wire[c],
                                      [type |-> "SYSTEM",
                                       data |-> [error |-> "Error processing message"],
                                       packet_data |-> None])
                              /\ WEBSOCKET_CLIENTS' = WEBSOCKET_CLIENTS
                              /\ pc'[c] = "Reply"
              /\ (pc[c] = "Reply" /\ pc'[c] # "Reply" /\ sock[c] # "closed")
                 => /\ pc'[c] = "Listening"
                    /\ WEBSOCKET_CLIENTS' = WEBSOCKET_CLIENTS
                    /\ inbox' = inbox /\ sock' = sock
      ]_vars

\* a handler was handed the error reply for its first message and then the echo
\* of its second, an INTENTION request
C13_Witness ==
    \E c \in Conns :
        /\ Len(wire[c]) = 3
        /\ wire[c][2] = ProcessingError
        /\ wire[c][3].type = "INTENTION"
        /\ req[c].type = "INTENTION"
        /\ pub[c].stage = "echo"
        /\ wire[c][3] = pub[c].message

\* C14: when a handler takes a request that fails validation (an empty intention
\* for a generator, a frequency or duration that is not positive), no other
\* connection is handed anything in that step, no other handler moves and no
\* other subscriber leaves the registry.
C14_ValidationFailureLocal ==
    [][\A c \in Conns :
          LET m == Head(inbox[c])
              invalid ==
                  /\ m.wellformed
                  /\ \/ /\ m.type = "INTENTION" /\ m.intention # NoText
                        /\ torus_field_generator(m.intention, m.frequency)
                               = Raise("ValueError")
                     \/ /\ m.type \in SingleStep
                        /\ Descriptor(m) = Raise("ValueError")
          IN  (pc[c] = "Listening" /\ Len(inbox'[c]) < Len(inbox[c]) /\ invalid)
                 => \A w \in Conns \ {c} :
                        /\ wire'[w] = wire[w]
                        /\ pc'[w] = pc[w]
                        /\ w \in WEBSOCKET_CLIENTS => w \in WEBSOCKET_CLIENTS'
      ]_vars

\* C15: with one request in all, every subscriber is handed the messages of an
\* INTENTION request in the order echo (1), Torus descriptor (2), DivineAmplify
\* descriptor (3), each at most once and none skipped between two it holds; the
\* third only when the request's amplify flag is set.  The handler computes the
\* Torus step only when the echo's publish has returned and the third step only
\* when the Torus publish has returned, and when the last publish has returned
\* every subscriber it delivered to holds the steps published since it joined,
\* in order, and the requester itself holds all of them.
C15_IntentionOrder ==
    LET Kind(m) == IF m.type = "INTENTION" /\ "intention" \in DOMAIN m.data THEN 1
                   ELSE IF m.type = "TORUS_FIELD" THEN 2
                   ELSE IF m.type = "INTENTION" THEN 3
                   ELSE 0
        IsStep(m) == Kind(m) > 0
        Kinds(w) == LET f == SelectSeq(wire[w], IsStep)
                    IN  [i \in 1..Len(f) |-> Kind(f[i])]
    IN  /\ \A w \in Conns :
               /\ \A i \in 1..Len(Kinds(w)) - 1 : Kinds(w)[i + 1] = Kinds(w)[i] + 1
               /\ (\E i \in 1..Len(Kinds(w)) : Kinds(w)[i] = 3)
                      => \E c \in Conns : req[c].type = "INTENTION" /\ req[c].boost
        /\ \A c \in Conns :
               /\ pc[c] = "Sleep1" => pub[c].stage = "echo" /\ ~pub[c].active
               /\ pc[c] = "Sleep2" =>
                      pub[c].stage = "torus" /\ ~pub[c].active /\ req[c].boost
               /\ pub[c].stage = "amplify" =>
                      /\ req[c].boost
                      /\ pub[c].message.type = "INTENTION"
                      /\ pub[c].message.data.original = req[c].intention
               /\ pub[c].stage = "torus" =>
                      /\ pub[c].message.type = "TORUS_FIELD"
                      /\ pub[c].message.data.intention = req[c].intention
                      /\ pub[c].message.data.torus_frequency = req[c].frequency
               /\ (pub[c].stage = "torus" /\ ~pub[c].active) =>
                      /\ \A w \in pub[c].ok :
                             Kinds(w) \in {<<2>>, <<1, 2>>, <<2, 3>>, <<1, 2, 3>>}
                      /\ ~req[c].boost => pc[c] \in {"Listening", "Closed"}
                      /\ req[c].boost => pc[c] = "Sleep2"
               /\ (pub[c].stage = "amplify" /\ ~pub[c].active) =>
                      \A w \in pub[c].ok :
                          /\ Kinds(w) \in {<<3>>, <<2, 3>>, <<1, 2, 3>>}
                          /\ w = c => Kinds(w) = <<1, 2, 3>>

\* the three publishes of an amplified request have returned, and both
\* subscribers hold the echo, the Torus and the DivineAmplify descriptor
C15_Witness ==
    \E c \in Conns :
        /\ pub[c].stage = "amplify" /\ ~pub[c].active
        /\ pub[c].ok = Conns
        /\ \A w \in Conns :
               /\ Len(wire[w]) = 4
               /\ wire[w][2].type = "INTENTION" /\ wire[w][2].packet_data # None
               /\ wire[w][3].type = "TORUS_FIELD"
               /\ wire[w][4] = pub[c].message

\* C16: a handler takes its inbound messages one at a time in arrival order: it
\* takes the oldest one, and only in Listening with no publish of its own
\* running, so not before the message before it, its delayed steps included, is
\* done with; arrivals queue up behind; and every publish call of a handler
\* carries a message derived from the request it took last.
C16_InboundOrderKept ==
    [][\A c \in Conns :
          /\ Len(inbox'[c]) < Len(inbox[c])
                 => /\ pc[c] = "Listening" /\ ~pub[c].active
                    /\ req'[c] = Head(inbox[c])
                    /\ inbox'[c] = Tail(inbox[c])
          /\ Len(inbox'[c]) >= Len(inbox[c])
                 => /\ SubSeq(inbox'[c], 1, Len(inbox[c])) = inbox[c]
                    /\ req'[c] = req[c]
          /\ (calls' = calls + 1 /\ pub'[c] # pub[c])
                 => LET p == pub'[c]
                        r == req'[c]
                    IN  /\ p.stage = "echo" =>
                               /\ pc[c] = "Listening" /\ r.type = "INTENTION"
                               /\ p.message.data.intention = r.intention
                        /\ p.stage = "torus" =>
                               /\ pc[c] = "Sleep1" /\ r.type = "INTENTION"
                               /\ p.message.data.intention = r.intention
                        /\ p.stage = "amplify" =>
                               /\ pc[c] = "Sleep2" /\ r.type = "INTENTION"
                               /\ p.message.data.original = r.intention
                        /\ p.stage = "single" =>
                               /\ pc[c] = "Listening" /\ r.type = p.message.type
                               /\ p.message.data.intention = r.intention
      ]_vars

\* a handler whose first request had a delayed Torus step was handed, after the
\* echo and the Torus descriptor of the first, the descriptor of its second
C16_Witness ==
    \E c \in Conns :
        /\ Len(wire[c]) = 4
        /\ wire[c][2].type = "INTENTION"
        /\ wire[c][3].type = "TORUS_FIELD"
        /\ wire[c][4].type \in SingleStep
        /\ req[c].type = wire[c][4].type
        /\ pub[c].stage = "single"
        /\ inbox[c] = <<>>

\* C17: after n packet builds, in whatever interleaving of the handlers, the
\* counter is n above its initial value 0, and the k-th packet built carries
\* the sequenceId k - 1: the ids rise by one in build order.
C17_CounterCountsBuilds ==
    /\ SEQUENCE_COUNTER = Len(built)
    /\ \A k \in 1..Len(built) : built[k] = k - 1

\* two packets were built, by two handlers, and both echoes went out
C17_Witness ==
    \E c, d \in Conns :
        /\ c # d
        /\ SEQUENCE_COUNTER = 2
        /\ pub[c].stage = "echo" /\ pub[c].message.packet_data # None
        /\ pub[d].stage = "echo" /\ pub[d].message.packet_data # None
        /\ pub[c].message.packet_data.sequenceId < pub[d].message.packet_data.sequenceId
        /\ ~pub[c].active /\ ~pub[d].active

\* C18: a handle that is registered has been handed a message, the first
\* message a handle is handed is the SYSTEM welcome, and a handler that has
\* started and whose connection is not closed has its handle in the registry:
\* no publish of another connection reaches a handle before its welcome.
C18_WelcomeFirst ==
    \A w \in Conns :
        /\ w \in WEBSOCKET_CLIENTS => wire[w] # <<>>
        /\ wire[w] # <<>> =>
               /\ wire[w][1].type = "SYSTEM"
               /\ wire[w][1].data
                      = [message |-> "Connected to Sacred Computing Platform"]
        /\ (pc[w] \notin {"Connected", "Closed"} /\ sock[w] # "closed")
               => w \in WEBSOCKET_CLIENTS

\* a handle that registered between the echo and the Torus publish of another
\* connection's request holds its welcome and then the Torus descriptor
C18_Witness ==
    \E c, w \in Conns :
        /\ c # w
        /\ pub[c].stage = "torus"
        /\ w \in pub[c].ok
        /\ Len(wire[w]) = 2
        /\ wire[w][1] = Welcome
        /\ wire[w][2] = pub[c].message

\* C19: once the connection of c is closed, the handler of c starts no publish
\* of a delayed step (Torus, DivineAmplify) of its request in flight that hands
\* anything to a subscriber; and the step that closes the connection leaves
\* every handler, the registry and the counter as they were.
C19_CloseCancelsInFlight ==
    [][\A c \in Conns :
          /\ ( /\ sock[c] = "closed"
               /\ pc[c] \in {"Sleep1", "Sleep2"}
               /\ calls' = calls + 1
               /\ pub'[c] # pub[c] )
                 => wire' = wire
          /\ (sock[c] # "closed" /\ sock'[c] = "closed")
                 => /\ pc' = pc
                    /\ WEBSOCKET_CLIENTS' = WEBSOCKET_CLIENTS
                    /\ SEQUENCE_COUNTER' = SEQUENCE_COUNTER
      ]_vars

\* C8: a publish called with the registry empty returns in the same step and
\* leaves the registry empty, the counter and the build history as they were,
\* and hands nothing to any transport; its message has no envelope.
C8_EmptyRegistryNoEffect ==
    [][(calls' = calls + 1 /\ WEBSOCKET_CLIENTS = {}) =>
          /\ WEBSOCKET_CLIENTS' = {}
          /\ SEQUENCE_COUNTER' = SEQUENCE_COUNTER
          /\ built' = built
          /\ wire' = wire
          /\ \A c \in Conns :
                 pc'[c] # pc[c] =>
                     /\ pc'[c] \in {"Listening", "Sleep1", "Sleep2"}
                     /\ ~pub'[c].active
                     /\ pub'[c].snapshot = {}
                     /\ pub'[c].message.packet_data = None
      ]_vars

\* the echo of an INTENTION request with an intention and a numeric frequency
\* was published on the empty registry
C8_Witness ==
    \E c \in Conns :
        /\ pub[c].stage = "echo"
        /\ ~pub[c].active
        /\ pub[c].snapshot = {}
        /\ pub[c].message.type = "INTENTION"
        /\ pub[c].message.data.intention # NoText
        /\ ~intention_strength(pub[c].message.data.intention,
                               pub[c].message.data.frequency).raised

\* C9: every message handed to a transport with an envelope is of type INTENTION
\* and has an intention in its data; every message of another type has none.
C9_EnvelopeOnlyOnIntention ==
    \A w \in Conns :
        \A i \in 1..Len(wire[w]) :
            LET m == wire[w][i]
            IN  /\ m.packet_data # None =>
                       m.type = "INTENTION" /\ "intention" \in DOMAIN m.data
                /\ m.type # "INTENTION" => m.packet_data = None

\* one subscriber was handed an INTENTION message with an envelope and a message
\* of another type that has an intention in its data and no envelope
C9_Witness ==
    \E w \in Conns :
        \E i, j \in 1..Len(wire[w]) :
            /\ wire[w][i].packet_data # None
            /\ wire[w][j].type # "INTENTION"
            /\ "intention" \in DOMAIN wire[w][j].data
            /\ wire[w][j].data.intention # NoText
            /\ wire[w][j].packet_data = None

\* C10: when the envelope of an INTENTION request cannot be built, the publish
\* goes on without it: the counter stays, the handler is taken to no error reply
\* by that step, and when the call returns every member of the snapshot was
\* attempted and the handler carries on after the call.
C10_EmbedFailureContained ==
    [][\A c \in Conns :
          LET m == Head(inbox[c])
              p == pub'[c]
          IN  /\ ( /\ Len(inbox'[c]) < Len(inbox[c])
                   /\ m.wellformed /\ m.type = "INTENTION" /\ m.intention # NoText
                   /\ intention_strength(m.intention, m.frequency).raised
                   /\ WEBSOCKET_CLIENTS # {} )
                  => /\ SEQUENCE_COUNTER' = SEQUENCE_COUNTER
                     /\ p.stage = "echo"
                     /\ p.snapshot = WEBSOCKET_CLIENTS
                     /\ p.message.packet_data = None
                     /\ pc'[c] \in {"Fanout", "Sleep1"}
                     /\ \A i \in 1..Len(wire'[c]) :
                            i > Len(wire[c]) => wire'[c][i] = p.message
              /\ ( /\ pub[c].active /\ ~p.active
                   /\ p.stage = "echo"
                   /\ intention_strength(p.message.data.intention,
                                         p.message.data.frequency).raised )
                  => /\ p.ok \cup p.failed = p.snapshot
                     /\ p.message.packet_data = None
                     /\ pc'[c] = "Sleep1"
                     /\ \A w \in p.ok :
                            \E i \in 1..Len(wire'[w]) : wire'[w][i] = p.message
      ]_vars

\* the echo of a request whose frequency is no number went out, without an
\* envelope, to all NConn subscribers, and the handler carries on
C10_Witness ==
    \E c \in Conns :
        /\ pub[c].stage = "echo"
        /\ ~pub[c].active
        /\ pub[c].message.data.intention # NoText
        /\ intention_strength(pub[c].message.data.intention,
                              pub[c].message.data.frequency).raised
        /\ pub[c].message.packet_data = None
        /\ pub[c].ok = Conns
        /\ pc[c] = "Sleep1"
        /\ \A w \in Conns : \E i \in 1..Len(wire[w]) : wire[w][i] = pub[c].message

\* C5: decoding the transport text of a packet built from a non-empty intention,
\* a positive frequency and a field type returns that intention.
C5_RoundTrip ==
    (origin = "packet" /\ extracted # NotCalled /\ packet.intention # NoText)
        => extracted = Returned(PyStr(packet.intention))

\* C6: the checksum of a built packet is the digest of its serialized payload,
\* the header's length is that serialization's length, and the digest taken
\* again over the payload decoded from the transport text is the checksum that
\* the decoded header carries.
C6_ChecksumMatches ==
    /\ packet # None =>
           /\ packet.header.checksum
                  = PyStr(Digest16(Utf8Encode(Dumps(packet.payload))))
           /\ packet.header.length = Len(Dumps(packet.payload))
    /\ origin = "packet" =>
           LET decoded == Loads(Utf8Decode(b64decode(packet_base64.s).value).value).value
               header == GetItem(decoded, T_header).value
               payload == GetItem(decoded, T_payload).value
           IN  /\ GetItem(header, T_checksum).value
                      = PyStr(Digest16(Utf8Encode(Dumps(payload))))
               /\ GetItem(header, T_checksum).value = packet.header.checksum

\* a packet whose intention has MaxLen characters, one of them not ASCII, was
\* serialized
C6_Witness ==
    /\ origin = "packet"
    /\ Len(packet.intention) = MaxLen
    /\ \E i \in 1..Len(packet.intention) : packet.intention[i] > 127

\* C7 as stated: decode raises nothing, and gives None for every text that is
\* not valid base64 (characters of the alphabet in groups of four, the last
\* group padded with at most two '='), or that decodes to bytes that are no
\* JSON, or to JSON without payload.intention.
C7_NoneOnInvalidInput ==
    extracted # NotCalled =>
        LET text == packet_base64.s
            n == Len(text)
            validBase64 ==
                /\ n % 4 = 0
                /\ \A i \in 1..n :
                       \/ IsB64Data(text[i])
                       \/ text[i] = 61 /\ i >= n - 1 /\ (i = n \/ text[n] = 61)
        IN  /\ ~extracted.raised
            /\ (~validBase64 \/ ExtractIntention(text).raised)
                   => extracted = Returned(None)

\* C7, amended: decode raises nothing, and gives None whenever the base64
\* decoder rejects the text, the bytes are no UTF-8, the decoded text is no
\* JSON, or the JSON has no payload.intention.  (The decoder drops characters
\* outside the alphabet, so a text that is not valid base64 may decode.)
C7_NoneOnDecodeFailure ==
    extracted # NotCalled =>
        LET raw == b64decode(packet_base64.s)
            json_str == Utf8Decode(raw.value)
            parsed == Loads(json_str.value)
            payload == GetItem(parsed.value, T_payload)
            failed ==
                \/ raw.raised
                \/ json_str.raised
                \/ parsed.raised
                \/ payload.raised
                \/ GetItem(payload.value, T_intention).raised
        IN  /\ ~extracted.raised
            /\ failed => extracted = Returned(None)
            /\ ~failed => extracted = GetItem(payload.value, T_intention)

\* a transport text that the base64 decoder rejects was decoded to None
C7_Witness ==
    /\ extracted = Returned(None)
    /\ origin = "damaged"
    /\ b64decode(packet_base64.s).raised

\* C21 as stated: the intention strength of a built packet is the smaller of
\* len(intention) * frequency / 100 and 100, and the packet built from
\* "Healing and peace" at 7.83 has the strength 18 * 7.83 / 100, which is 14094
\* ten-thousandths.
C21_StrengthOfExample ==
    packet # None =>
        LET strength == GetItem(packet.metadata, T_intention_strength).value
            tenThousandths(x) == x.v * Pow10(4 - (IF x.k = "int" THEN 0 ELSE x.e))
            quotient == (Len(packet.intention) * tenThousandths(packet.frequency)) \div 100
        IN  /\ tenThousandths(strength)
                   = (IF quotient < 1000000 THEN quotient ELSE 1000000)
            /\ ( /\ packet.intention = HealingAndPeace
                 /\ packet.frequency = Num(SCHUMANN_RESONANCE) )
                   => tenThousandths(strength) = 18 * 783

\* C21, amended: the intention strength of a built packet is the smaller of
\* len(intention) * frequency / 100 and 100 (the int 100 when the quotient is
\* above it), and the packet built from "Healing and peace", which has 17
\* characters, at 7.83 has the strength 17 * 7.83 / 100, which is 13311
\* ten-thousandths.
C21_StrengthIsCappedQuotient ==
    packet # None =>
        LET strength == GetItem(packet.metadata, T_intention_strength).value
            tenThousandths(x) == x.v * Pow10(4 - (IF x.k = "int" THEN 0 ELSE x.e))
            quotient == (Len(packet.intention) * tenThousandths(packet.frequency)) \div 100
        IN  /\ tenThousandths(strength)
                   = (IF quotient < 1000000 THEN quotient ELSE 1000000)
            /\ quotient > 1000000 => strength = PyInt(100)
            /\ ( /\ packet.intention = HealingAndPeace
                 /\ packet.frequency = Num(SCHUMANN_RESONANCE) )
                   => tenThousandths(strength) = 17 * 783

\* the packet of "Healing and peace" at 7.83 was built
C21_Witness ==
    /\ packet # None
    /\ packet.intention = HealingAndPeace
    /\ packet.frequency = Num(SCHUMANN_RESONANCE)
    /\ Len(packet.intention) = 17

\* C20: a call of any of the six generators with an empty intention raises
\* ValueError and returns no descriptor; so does a call of the Torus or the
\* Merkaba generator with a frequency of zero or below, and a call of the
\* FlowerOfLife generator with a duration of zero or below.
C20_InvalidArgumentsRejected ==
    call.fn \in PatternFunctions =>
        /\ call.intention = NoText => result = Raise("ValueError")
        /\ ( /\ call.fn \in {"torus_field_generator", "merkaba_field_generator",
                             "flower_of_life_pattern"}
             /\ call.number <= 0 )
               => result = Raise("ValueError")

\* the Torus generator was called with an intention and a negative frequency,
\* and raised
C20_Witness ==
    /\ call.fn = "torus_field_generator"
    /\ call.intention = Love
    /\ call.number < 0
    /\ result.raised

\* C22 as stated: the alignment that DivineAmplify returns is the sum of the
\* intention's character codes modulo 9, or 9 when that remainder is 0, so it is
\* never 0; and for "Love", whose codes add up to 406, it is 4.
C22_AlignmentOfLoveIsFour ==
    (call.fn = "divine_proportion_amplify" /\ ~result.raised) =>
        LET alignment == result.value.metatronic_alignment
            remainder == CharCodeSum(call.intention) % 9
        IN  /\ alignment = (IF remainder = 0 THEN 9 ELSE remainder)
            /\ alignment \in 1..9
            /\ call.intention = Love => alignment = 4

\* C22, amended: the alignment that DivineAmplify returns is the sum of the
\* intention's character codes modulo 9, or 9 when that remainder is 0, so it is
\* never 0; and for "Love", whose codes add up to 406 = 9 * 45 + 1, it is 1.
C22_AlignmentIsDigitRoot ==
    (call.fn = "divine_proportion_amplify" /\ ~result.raised) =>
        LET alignment == result.value.metatronic_alignment
            remainder == CharCodeSum(call.intention) % 9
        IN  /\ alignment = (IF remainder = 0 THEN 9 ELSE remainder)
            /\ alignment \in 1..9
            /\ call.intention = Love =>
                   /\ 76 + 111 + 118 + 101 = 406
                   /\ alignment = (76 + 111 + 118 + 101) % 9
                   /\ alignment = 1
            /\ call.intention = <<72>> => alignment = 9

\* DivineAmplify was called with "Love" and returned a descriptor
C22_Witness ==
    /\ call.fn = "divine_proportion_amplify"
    /\ call.intention = Love
    /\ ~result.raised
    /\ result.value.original = Love

C24_SnapshotIterated ==
    [][\A c \in Conns :
          pub'[c] # pub[c] =>
              LET p == pub'[c]
                  began == calls' # calls
                  before == IF began THEN {} ELSE Attempted(pub[c])
              IN  /\ p.snapshot = (IF began THEN WEBSOCKET_CLIENTS ELSE pub[c].snapshot)
                  /\ before \subseteq Attempted(p)
                  /\ Attempted(p) \subseteq p.snapshot
                  /\ Cardinality(Attempted(p) \ before) <= 1
                  /\ \A w \in Conns :
                         wire'[w] # wire[w] =>
                             /\ w = p.cur
                             /\ w \notin before
                             /\ wire'[w] = Append(wire[w], p.message)
                  /\ ~p.active => Attempted(p) = p.snapshot
      ]_vars

\* a publish call is at its last member, and a handle that subscribed after
\* the call began is registered and has got nothing but its welcome
C24_Witness ==
    \E c, w \in Conns :
        /\ pub[c].active
        /\ pub[c].snapshot # {}
        /\ Attempted(pub[c]) = pub[c].snapshot
        /\ w \in WEBSOCKET_CLIENTS \ pub[c].snapshot
        /\ wire[w] = <<Welcome>>

\* C25: a handler that takes a MERKABA, METATRON, SRI_YANTRA or FLOWER_OF_LIFE
\* request with a non-empty intention (and a positive frequency or duration
\* where the type takes one) makes one publish call in the same step, with no
\* sleep before it, of a message that has the request's type, the request's
\* intention in its descriptor and no envelope; a publish call of such a
\* message is made at no other time; and when the call returns the handler is
\* listening again, with no further publish call, sleep or reply.
C25_SingleStepRequests ==
    [][\A c \in Conns :
          LET took == Len(inbox'[c]) < Len(inbox[c])
              m == Head(inbox[c])
              valid ==
                  /\ m.wellformed
                  /\ m.type \in {"MERKABA", "METATRON", "SRI_YANTRA", "FLOWER_OF_LIFE"}
                  /\ m.intention # NoText
                  /\ m.type = "MERKABA" =>
                         m.frequency.k \in {"int", "num"} /\ m.frequency.v > 0
                  /\ m.type = "FLOWER_OF_LIFE" => m.duration > 0
          IN  /\ (took /\ valid) =>
                     /\ calls' = calls + 1
                     /\ pub'[c].stage = "single"
                     /\ pub'[c].message.type = m.type
                     /\ pub'[c].message.data.intention = m.intention
                     /\ pub'[c].message.packet_data = None
                     /\ pc'[c] \in {"Fanout", "Listening"}
                     /\ SEQUENCE_COUNTER' = SEQUENCE_COUNTER
              /\ (calls' # calls /\ pub'[c] # pub[c] /\ pub'[c].stage = "single") =>
                     took /\ valid
              /\ (pub[c].stage = "single" /\ pc[c] = "Fanout" /\ pc'[c] # "Fanout") =>
                     /\ pc'[c] = "Listening"
                     /\ calls' = calls
                     /\ ~pub'[c].active
      ]_vars

\* the one publish of a FLOWER_OF_LIFE request has returned: both subscribers
\* hold the welcome and that message and nothing else, and the handler listens
C25_Witness ==
    \E c \in Conns :
        /\ req[c].type = "FLOWER_OF_LIFE"
        /\ pub[c].stage = "single" /\ ~pub[c].active
        /\ pub[c].message.type = "FLOWER_OF_LIFE"
        /\ pub[c].ok = Conns
        /\ pc[c] = "Listening"
        /\ calls = 1
        /\ \A w \in Conns : wire[w] = <<Welcome, pub[c].message>>

\* C26: a handler that takes a message whose type is none of INTENTION,
\* MERKABA, METATRON, SRI_YANTRA and FLOWER_OF_LIFE sends nothing to anyone,
\* makes no publish call, leaves the registry and the counter as they are, and
\* is listening afterwards as it was before.
C26_UnknownTypeIgnored ==
    [][\A c \in Conns :
          ( /\ Len(inbox'[c]) < Len(inbox[c])
            /\ Head(inbox[c]).wellformed
            /\ Head(inbox[c]).type \notin {"INTENTION", "MERKABA", "METATRON",
                                           "SRI_YANTRA", "FLOWER_OF_LIFE"} )
              => /\ pc[c] = "Listening" /\ pc'[c] = "Listening"
                 /\ UNCHANGED <<wire, pub, calls, WEBSOCKET_CLIENTS, SEQUENCE_COUNTER,
                                built, exitPath, sock>>
                 /\ \A w \in Conns \ {c} : pc'[w] = pc[w]
      ]_vars

\* a subscriber sent a SYSTEM message, its handler took it, and the subscriber
\* holds its welcome alone: nothing was published
C26_Witness ==
    \E c \in Conns :
        /\ req[c].wellformed /\ req[c].type = "SYSTEM"
        /\ inbox[c] = <<>>
        /\ pc[c] = "Listening"
        /\ c \in WEBSOCKET_CLIENTS
        /\ wire[c] = <<Welcome>>
        /\ calls = 0

\* C27 as stated: every connection whose handler is listening is in the
\* registry.
C27_ListeningIsRegistered ==
    \A c \in Conns : pc[c] = "Listening" => c \in WEBSOCKET_CLIENTS

\* C27, amended: a handle leaves the registry only when its own connection is
\* closed (through its handler's finally clause, or through a failed delivery
\* to it in any publish), and never comes back; so every connection that is
\* not closed and whose handler has registered it and not ended is in the
\* registry, whatever became of deliveries to other connections.
C27_OpenIsRegistered ==
    [][\A c \in Conns :
          /\ (c \in WEBSOCKET_CLIENTS /\ c \notin WEBSOCKET_CLIENTS') => sock[c] = "closed"
          /\ (c \notin WEBSOCKET_CLIENTS /\ c \in WEBSOCKET_CLIENTS') => pc[c] = "Connected"
          /\ (sock'[c] # "closed" /\ pc'[c] \notin {"Connected", "Closed"})
                 => c \in WEBSOCKET_CLIENTS'
      ]_vars

\* a delivery to w failed in the publish of c and removed w, whose handler is
\* still listening on its closed connection; c is open, listening and registered
C27_Witness ==
    \E c, w \in Conns :
        /\ w \in pub[c].failed
        /\ sock[w] = "closed"
        /\ pc[w] = "Listening"
        /\ w \notin WEBSOCKET_CLIENTS
        /\ sock[c] = "open"
        /\ pc[c] = "Listening"
        /\ c \in WEBSOCKET_CLIENTS

\* C28: in every step of the server the counter moves on by one when a publish
\* call begins whose message carries an envelope, and stays otherwise, so that
\* the counter always is the number of messages published with an envelope;
\* it moves only in the step that takes an INTENTION request, for the echo,
\* and a request whose envelope cannot be built is published without one and
\* leaves the counter alone.
C28_CounterCountsEnvelopes ==
    [][ LET enveloped ==
                {c \in Conns : /\ calls' # calls
                               /\ pub'[c] # pub[c]
                               /\ pub'[c].message.packet_data # None}
        IN  /\ SEQUENCE_COUNTER' = SEQUENCE_COUNTER + Cardinality(enveloped)
            /\ Cardinality(enveloped) <= 1
            /\ \A c \in enveloped :
                   /\ Len(inbox'[c]) < Len(inbox[c])
                   /\ Head(inbox[c]).type = "INTENTION"
                   /\ pub'[c].stage = "echo"
                   /\ pub'[c].message.packet_data.sequenceId = SEQUENCE_COUNTER
            /\ \A c \in Conns :
                   ( /\ Len(inbox'[c]) < Len(inbox[c])
                     /\ Head(inbox[c]).wellformed
                     /\ Head(inbox[c]).type = "INTENTION"
                     /\ Head(inbox[c]).frequency.k \notin {"int", "num"} )
                       => /\ SEQUENCE_COUNTER' = SEQUENCE_COUNTER
                          /\ calls' = calls + 1
                          /\ pub'[c].message.packet_data = None
      ]_vars

\* two INTENTION requests, one of them amplified, were published in full: five
\* publish calls or more, and the counter at 2
C28_Witness ==
    /\ SEQUENCE_COUNTER = 2
    /\ calls >= 5
    /\ \A c \in Conns : ~pub[c].active
    /\ \E c \in Conns : pub[c].stage = "amplify"

\* C29: the message of a publish call, its envelope included, stays as it was
\* made when the call began: no step of the call changes it or builds another
\* packet, whatever a step of the call hands to a connection is that message,
\* and when the call returns every member it delivered to holds that message.
C29_OneTextPerPublish ==
    [][\A c \in Conns :
          pub'[c] # pub[c] =>
              LET p == pub'[c]
              IN  /\ calls' = calls =>
                         /\ p.message = pub[c].message
                         /\ SEQUENCE_COUNTER' = SEQUENCE_COUNTER
                         /\ built' = built
                  /\ \A w \in Conns :
                         wire'[w] # wire[w] =>
                             /\ Len(wire'[w]) = Len(wire[w]) + 1
                             /\ wire'[w][Len(wire'[w])] = p.message
                  /\ ~p.active =>
                         \A w \in p.ok : \E i \in 1..Len(wire'[w]) : wire'[w][i] = p.message
      ]_vars

\* the publish of an echo with an envelope has returned, and both subscribers
\* hold it as their last message, with the same sequenceId
C29_Witness ==
    \E c \in Conns :
        /\ pub[c].stage = "echo" /\ ~pub[c].active
        /\ pub[c].message.packet_data # None
        /\ pub[c].ok = Conns
        /\ \A w \in Conns :
               /\ Len(wire[w]) >= 2
               /\ wire[w][Len(wire[w])] = pub[c].message
               /\ wire[w][Len(wire[w])].packet_data.sequenceId = SEQUENCE_COUNTER - 1

\* C30: a handler that takes an INTENTION request with an empty intention
\* makes one publish call in that step, of an INTENTION message without an
\* envelope, and leaves the counter alone; when the call returns the handler is
\* listening again, having made no other publish call and sent no reply; and
\* no Torus or DivineAmplify message is ever published for such a request.
C30_EmptyIntentionEchoOnly ==
    [][\A c \in Conns :
          /\ ( /\ Len(inbox'[c]) < Len(inbox[c])
               /\ Head(inbox[c]).wellformed
               /\ Head(inbox[c]).type = "INTENTION"
               /\ Head(inbox[c]).intention = NoText )
                 => /\ calls' = calls + 1
                    /\ pub'[c].stage = "echo"
                    /\ pub'[c].message.type = "INTENTION"
                    /\ pub'[c].message.data.intention = NoText
                    /\ pub'[c].message.packet_data = None
                    /\ SEQUENCE_COUNTER' = SEQUENCE_COUNTER
                    /\ pc'[c] \in {"Fanout", "Listening"}
                    /\ \A w \in Conns :
                           wire'[w] # wire[w] => wire'[w] = Append(wire[w], pub'[c].message)
          /\ ( /\ pub[c].stage = "echo"
               /\ req[c].intention = NoText
               /\ pc[c] = "Fanout" /\ pc'[c] # "Fanout" )
                 => /\ pc'[c] = "Listening"
                    /\ calls' = calls
                    /\ SEQUENCE_COUNTER' = SEQUENCE_COUNTER
          /\ ( /\ calls' # calls
               /\ pub'[c] # pub[c]
               /\ pub'[c].stage \in {"torus", "amplify"} )
                 => req[c].intention # NoText
          /\ (pc'[c] \in {"Sleep1", "Sleep2"}) => req'[c].intention # NoText
      ]_vars

\* the echo of an INTENTION request with an empty intention, and the amplify
\* flag set, went to both subscribers without an envelope; they hold nothing
\* else but their welcome, and the handler listens
C30_Witness ==
    \E c \in Conns :
        /\ req[c].type = "INTENTION" /\ req[c].intention = NoText /\ req[c].boost
        /\ pub[c].stage = "echo" /\ ~pub[c].active
        /\ pub[c].ok = Conns
        /\ pub[c].message.packet_data = None
        /\ pc[c] = "Listening"
        /\ inbox[c] = <<>>
        /\ calls = 1
        /\ SEQUENCE_COUNTER = 0
        /\ \A w \in Conns : wire[w] = <<Welcome, pub[c].message>>

====
